---------------------------- MODULE Spec2Model ----------------------------
(***************************************************************************)
(* A model of the bevy_bones3 voxel engine: region math, the sparse        *)
(* chunk / sector / world storage of src/src/storage/world.rs, and the     *)
(* world-generation schedulers of crates/bones3_worldgen.                   *)
(*                                                                         *)
(* Several specifications share the module's variables; each one drives    *)
(* its own group of variables and leaves the others at their idle value.   *)
(*   SpecBlocks  VoxelWorld driven by init_chunk / set_block / get_block / *)
(*               unload_chunk                                              *)
(*   SpecChunks  SpecBlocks plus prepare_chunk and unload_all_chunks       *)
(*   SpecCoords  the block-coordinate decomposition (>> 8, >> 4, & 15)     *)
(*   SpecRegion  Region::contains / point_to_index                         *)
(*   SpecIter    CuboidIterator                                            *)
(*   SpecGen     the scheduler of crates/bones3_worldgen/src/ecs/systems.rs*)
(*   SpecQueue   the scheduler of crates/bones3_worldgen/src/queue.rs      *)
(*   SpecGenLive SpecGen with the fairness of a running application        *)
(*   SpecSpawn   spawn_chunk / despawn and the command flush               *)
(*   SpecQueueDespawn  SpecQueue with despawn_chunk calls                  *)
(*   SpecMove    SpecGen with an anchor that moves                         *)
(*   SpecLoad    load_chunks of src/src/anchor with its ChunkLoaderCache   *)
(*   SpecCentre  the position to chunk coordinate conversion of an anchor  *)
(*   SpecPriority    get_priority of a chunk anchor                        *)
(*   SpecRecipients  update_chunk_priorities on given anchors and chunks   *)
(*   SpecAnchor  the load and memory radii of a chunk anchor               *)
(*   SpecCache   ChunkLoaderCache: default, update_weighted_dir, iter      *)
(*   SpecSlice   get_slice / fill_slice over regions of several chunks     *)
(*   SpecFill    init_chunk(..).fill_blocks(..)                            *)
(*   SpecRemesh  who receives the RemeshChunk marker                       *)
(*   SpecAnchorIter  set_world / set_radius / iter of the anchor of        *)
(*               src/src/world_gen/anchor.rs                               *)
(*   SpecForce   force_load_chunks and load_chunks_async                   *)
(*   SpecEvents  init_chunk / unload_chunk / unload_all_chunks chained     *)
(*               with call_event                                           *)
(*   SpecStorage the per-chunk containers VoxelStorage and VoxelChunk      *)
(*   SpecIntersect   Region::intersects / intersection                     *)
(*   SpecPointers    ChunkEntityPointers of src/src/query/sector.rs        *)
(*   SpecSetBlock    the set_block system of src/src/storage/systems.rs    *)
(***************************************************************************)
EXTENDS Integers, Sequences, FiniteSets, TLC

VARIABLES
    sectors,    \* VoxelWorld.sectors: the Vec<VoxelSector<T>>
    shadow,     \* history: per test point, the last value successfully written
                \* since the last successful init_chunk of its chunk
    lastOp,     \* the last VoxelWorld call: its name, arguments and result
    coord,      \* SpecCoords: the block coordinate being decomposed
    region,     \* SpecRegion / SpecIter: the Region under test
    probe,      \* SpecRegion: the last point_to_index call and its result
    iter,       \* SpecIter: the CuboidIterator (min, max, next)
    yielded,    \* SpecIter: the points next() has returned so far, in order
    lastNext,   \* SpecIter: what the last next() call returned
    ents,       \* schedulers: the chunk entities and their components
    pointers,   \* schedulers: each world's ChunkEntityPointers
    anchors,    \* schedulers: the chunk anchors
    cmds,       \* schedulers: the deferred command queue of the current stage
    ran,        \* schedulers: the systems that already ran in this stage
    stage,      \* schedulers: the stage of the frame that is executing
    picked,     \* schedulers: history, what push_chunk_async_queue selected
    offsets,    \* SpecLoad: ChunkLoaderCache.offsets, the Local of load_chunks
    chunk_load_ev, \* SpecLoad: the ChunkLoadEvents sent by the last pass
    passes      \* SpecLoad: the passes of load_chunks run so far

storageVars == <<sectors, shadow, lastOp>>
coordVars   == <<coord>>
regionVars  == <<region, probe>>
iterVars    == <<iter, yielded, lastNext>>
schedVars   == <<ents, pointers, anchors, cmds, ran, stage, picked>>
loadVars    == <<offsets, chunk_load_ev, passes>>
vars == <<sectors, shadow, lastOp, coord, region, probe, iter, yielded,
          lastNext, ents, pointers, anchors, cmds, ran, stage, picked,
          offsets, chunk_load_ev, passes>>

(***************************************************************************)
(* Bounds of the model.                                                    *)
(***************************************************************************)
\* How many of the test block coordinates (AllPoints) a storage run uses.
NumPoints == 3
\* Block values range over 0..MaxValue; 0 is T::default().
MaxValue == 1
\* Test regions have between 1 and MaxSize points along each axis.
MaxSize == 3
\* Block coordinates decomposed in SpecCoords lie in -MaxCoord..MaxCoord.
MaxCoord == 257
\* next() is called up to MaxExtraCalls times after the iterator is exhausted.
MaxExtraCalls == 2
\* The widest chunk anchor of SpecGen reaches GenRadius chunks along x.
GenRadius == 2
\* The chunks of SpecQueue lie at x = 0..QueueSpan.
QueueSpan == 3
\* The systems of a SpecSpawn frame queue up to MaxSpawnCalls commands.
MaxSpawnCalls == 3
\* A SpecSpawn run spawns up to MaxChunkEntities chunk entities.
MaxChunkEntities == 3
\* The anchor of SpecMove moves between the chunks 0 and MoveSpan along x.
MoveSpan == 1
\* SpecPriority draws targets from the cube of half-width PrioritySpan around
\* the anchor.
PrioritySpan == 5
\* SpecRecipients has a chunk at each of the coordinates 0..RecipientSpan of
\* each world.
RecipientSpan == 2
\* SpecAnchor draws load radii from 0..MaxRadius and memory radii from
\* 0..MaxRadius + 1.
MaxRadius == 6
\* SpecCentre draws anchor positions of -MaxHalf..MaxHalf halves of a block on
\* the x axis.
MaxHalf == 40
\* The const R of ChunkLoaderCache<R> in SpecLoad: the offsets span -LoadR..LoadR.
LoadR == 2
\* SpecLoad runs up to MaxLoadPasses passes of load_chunks.
MaxLoadPasses == 2
\* The anchor of SpecMove stops moving once MaxMoveEntities chunk entities
\* have been spawned.
MaxMoveEntities == 6
\* SpecAnchorIter calls iter with centres of 0..IterSpan along x and y.
IterSpan == 2
\* The anchor of SpecAnchorIter has a load radius of 0..IterRadius.
IterRadius == 2
\* A SpecAnchorIter run makes up to MaxIterCalls calls on the anchor.
MaxIterCalls == 3
\* A SpecForce run has 1..MaxForceAnchors chunk anchors.
MaxForceAnchors == 2
\* A SpecStorage run makes up to MaxSets set calls.
MaxSets == 2
\* The regions of SpecIntersect have corners of 0..IntersectSpan along x and y.
IntersectSpan == 2
\* SpecPointers uses the first NumPointerCoords of its chunk coordinates.
NumPointerCoords == 4
\* A batch holds up to MaxBatch SetBlockEvents.
MaxBatch == 2
\* The set_block system runs in up to MaxSetBlockFrames frames.
MaxSetBlockFrames == 2

(***************************************************************************)
(* Integer vectors (glam IVec3) and two's-complement bit operations.       *)
(***************************************************************************)
IVec3(x, y, z) == <<x, y, z>>
VAdd(a, b) == <<a[1] + b[1], a[2] + b[2], a[3] + b[3]>>
VSub(a, b) == <<a[1] - b[1], a[2] - b[2], a[3] - b[3]>>
VAddS(a, s) == <<a[1] + s, a[2] + s, a[3] + s>>
VMin(a, b) == <<IF a[1] < b[1] THEN a[1] ELSE b[1],
                IF a[2] < b[2] THEN a[2] ELSE b[2],
                IF a[3] < b[3] THEN a[3] ELSE b[3]>>
VMax(a, b) == <<IF a[1] > b[1] THEN a[1] ELSE b[1],
                IF a[2] > b[2] THEN a[2] ELSE b[2],
                IF a[3] > b[3] THEN a[3] ELSE b[3]>>

Pow2(n) == 2 ^ n

\* !x on an i32: every bit flipped.
BitNot(x) == -x - 1

\* A shift that truncates toward zero, as integer division would.
ShrTruncating(x, n) == IF x >= 0 THEN x \div Pow2(n) ELSE -((-x) \div Pow2(n))

\* x >> n on an i32: the arithmetic shift.  The sign bit is copied in from
\* the left, so a negative x is shifted as the complement of its complement.
Shr(x, n) == IF x >= 0 THEN x \div Pow2(n) ELSE BitNot(BitNot(x) \div Pow2(n))

\* x << n on an i32 (no overflow in the range modelled).
Shl(x, n) == x * Pow2(n)

\* x & 15 on an i32: the low four bits of the two's-complement pattern.
And15(x) == IF x >= 0 THEN x % 16 ELSE 15 - (BitNot(x) % 16)

ShrV(v, n) == <<Shr(v[1], n), Shr(v[2], n), Shr(v[3], n)>>
ShlV(v, n) == <<Shl(v[1], n), Shl(v[2], n), Shl(v[3], n)>>
And15V(v) == <<And15(v[1]), And15(v[2]), And15(v[3])>>

(***************************************************************************)
(* Results.  Ok(v), Err and a panic (a failed unwrap) are told apart.      *)
(***************************************************************************)
Ok(v)  == [kind |-> "ok", val |-> v]
Err    == [kind |-> "err", val |-> 0]
Panic  == [kind |-> "panic", val |-> 0]

(***************************************************************************)
(* Region (src/src/math/region.rs).                                        *)
(***************************************************************************)
Region(pos, size) == [pos |-> pos, size |-> size]

CHUNK == Region(<<0, 0, 0>>, <<16, 16, 16>>)

from_points(a, b) ==
    LET min == VMin(a, b)
        max == VMax(a, b)
    IN Region(min, VAddS(VSub(max, min), 1))

RMin(r) == r.pos
RMax(r) == VAddS(VAdd(r.pos, r.size), -1)

contains(r, point) ==
    LET p == VSub(point, r.pos)
    IN p[1] >= 0 /\ p[2] >= 0 /\ p[3] >= 0
       /\ p[1] < r.size[1] /\ p[2] < r.size[2] /\ p[3] < r.size[3]

\* An index that multiplies x by size.y only.
point_to_indexDropZ(r, point) ==
    IF ~contains(r, point) THEN Err
    ELSE LET p == VSub(point, r.pos)
         IN Ok(p[1] * r.size[2] + p[2] * r.size[3] + p[3])

point_to_index(r, point) ==
    IF ~contains(r, point) THEN Err
    ELSE LET p == VSub(point, r.pos)
         IN Ok(p[1] * r.size[2] * r.size[3] + p[2] * r.size[3] + p[3])

count(r) == r.size[1] * r.size[2] * r.size[3]

(***************************************************************************)
(* VoxelWorld (src/src/storage/world.rs).                                  *)
(*                                                                         *)
(* The two boxed 4096-element arrays are kept sparse: `chunks` is a        *)
(* function on the indices whose slot is Some, `blocks` a function on the  *)
(* indices whose value is not T::default().  Both determine the arrays.   *)
(***************************************************************************)
Default == 0
Values == 0..MaxValue

Put(f, k, v) == [x \in (DOMAIN f) \cup {k} |-> IF x = k THEN v ELSE f[x]]
Del(f, k) == [x \in (DOMAIN f) \ {k} |-> f[x]]
Empty == [x \in {} |-> 0]

\* blocks[i] = data on the dense array.
WriteBlock(blocks, i, data) ==
    IF data = Default THEN Del(blocks, i) ELSE Put(blocks, i, data)
\* blocks[i] on the dense array.
ReadBlock(blocks, i) == IF i \in DOMAIN blocks THEN blocks[i] ELSE Default

VoxelChunk_new(chunk_coords, load_state) ==
    [blocks |-> Empty, chunk_coords |-> chunk_coords, load_state |-> load_state]

VoxelSector_new(sector_coords) ==
    [chunks |-> Empty, sector_coords |-> sector_coords]

\* self.sectors.iter().find(|s| s.sector_coords == sector_coords): the index
\* of the first match, 0 when there is none.
FindSector(secs, sector_coords) ==
    LET hits == {i \in 1..Len(secs) : secs[i].sector_coords = sector_coords}
    IN IF hits = {} THEN 0 ELSE CHOOSE i \in hits : \A j \in hits : i <= j

\* A lookup that takes the sector of a block by truncating division.
SectorOfTruncating(block_coords) ==
    <<ShrTruncating(block_coords[1], 8), ShrTruncating(block_coords[2], 8),
      ShrTruncating(block_coords[3], 8)>>

\* block_coords >> 8
SectorOf(block_coords) == ShrV(block_coords, 8)

\* (block_coords >> 4) & 15
SlotOf(block_coords) == And15V(ShrV(block_coords, 4))

\* block_coords & 15
CellOf(block_coords) == And15V(block_coords)

\* A read that answers the default only for a missing sector and indexes the
\* chunk slot without looking whether it is Some.
get_blockNoSlotCheck(secs, block_coords) ==
    LET si == FindSector(secs, SectorOf(block_coords))
        ci == point_to_index(CHUNK, SlotOf(block_coords))
        bi == point_to_index(CHUNK, CellOf(block_coords))
    IN IF si = 0 THEN Ok(Default)
       ELSE IF ci.kind # "ok" \/ bi.kind # "ok" THEN Panic
       ELSE IF ci.val \in DOMAIN secs[si].chunks
            THEN Ok(ReadBlock(secs[si].chunks[ci.val].blocks, bi.val))
            ELSE Panic

\* VoxelWorld::get_block.  The result is Ok(value), or Panic when one of the
\* two unwrap()s fails.
get_block(secs, block_coords) ==
    LET si == FindSector(secs, SectorOf(block_coords))
    IN IF si = 0 THEN Ok(Default)
       ELSE LET ci == point_to_index(CHUNK, SlotOf(block_coords))
            IN IF ci.kind # "ok" THEN Panic
               ELSE IF ci.val \in DOMAIN secs[si].chunks
                    THEN LET bi == point_to_index(CHUNK, CellOf(block_coords))
                         IN IF bi.kind # "ok" THEN Panic
                            ELSE Ok(ReadBlock(secs[si].chunks[ci.val].blocks,
                                              bi.val))
                    ELSE Ok(Default)

\* A write that materialises the sector and the chunk it is missing.
set_blockCreating(secs, block_coords, data) ==
    LET si0 == FindSector(secs, SectorOf(block_coords))
        secs1 == IF si0 = 0
                 THEN Append(secs, VoxelSector_new(SectorOf(block_coords)))
                 ELSE secs
        si == IF si0 = 0 THEN Len(secs1) ELSE si0
        ci == point_to_index(CHUNK, SlotOf(block_coords))
        bi == point_to_index(CHUNK, CellOf(block_coords))
    IN IF ci.kind # "ok" \/ bi.kind # "ok" THEN [w |-> secs, ret |-> Panic]
       ELSE LET old == IF ci.val \in DOMAIN secs1[si].chunks
                       THEN secs1[si].chunks[ci.val]
                       ELSE VoxelChunk_new(ShrV(block_coords, 4), "Loaded")
                new == [old EXCEPT !.blocks = WriteBlock(@, bi.val, data)]
            IN [w |-> [secs1 EXCEPT ![si].chunks = Put(@, ci.val, new)],
                ret |-> Ok(0)]

\* A write that lands in cell 0 of the chunk whatever the coordinate.
set_blockCellZero(secs, block_coords, data) ==
    LET si == FindSector(secs, SectorOf(block_coords))
        ci == point_to_index(CHUNK, SlotOf(block_coords))
    IN IF si = 0 THEN [w |-> secs, ret |-> Err]
       ELSE IF ci.kind # "ok" THEN [w |-> secs, ret |-> Panic]
       ELSE IF ci.val \notin DOMAIN secs[si].chunks
            THEN [w |-> secs, ret |-> Err]
            ELSE [w |-> [secs EXCEPT ![si].chunks[ci.val].blocks =
                                        WriteBlock(@, 0, data)],
                  ret |-> Ok(0)]

\* VoxelWorld::set_block: the world after the call and the call's result.
set_block(secs, block_coords, data) ==
    LET si == FindSector(secs, SectorOf(block_coords))
    IN IF si = 0 THEN [w |-> secs, ret |-> Err]
       ELSE LET ci == point_to_index(CHUNK, SlotOf(block_coords))
            IN IF ci.kind # "ok" THEN [w |-> secs, ret |-> Panic]
               ELSE IF ci.val \notin DOMAIN secs[si].chunks
                    THEN [w |-> secs, ret |-> Err]
                    ELSE LET bi == point_to_index(CHUNK, CellOf(block_coords))
                         IN IF bi.kind # "ok" THEN [w |-> secs, ret |-> Panic]
                            ELSE [w |-> [secs EXCEPT
                                           ![si].chunks[ci.val].blocks =
                                               WriteBlock(@, bi.val, data)],
                                  ret |-> Ok(0)]

\* The sector of a chunk coordinate, creating it at the end of the Vec when
\* it is missing (the match in prepare_chunk and init_chunk).
WithSector(secs, sector_coords) ==
    IF FindSector(secs, sector_coords) = 0
    THEN Append(secs, VoxelSector_new(sector_coords))
    ELSE secs

\* VoxelWorld::prepare_chunk
prepare_chunk(secs, chunk_coords) ==
    LET sector_coords == ShrV(chunk_coords, 4)
        secs1 == WithSector(secs, sector_coords)
        si == FindSector(secs1, sector_coords)
        ci == point_to_index(CHUNK, And15V(chunk_coords))
    IN IF ci.kind # "ok" THEN [w |-> secs1, ret |-> Panic]
       ELSE IF ci.val \in DOMAIN secs1[si].chunks
            THEN [w |-> secs1, ret |-> Err]
            ELSE [w |-> [secs1 EXCEPT ![si].chunks =
                            Put(@, ci.val, VoxelChunk_new(chunk_coords, "Loading"))],
                  ret |-> Ok(0)]

\* An init_chunk that replaces an occupied slot by a fresh chunk.
init_chunkOverwriting(secs, chunk_coords) ==
    LET sector_coords == ShrV(chunk_coords, 4)
        secs1 == WithSector(secs, sector_coords)
        si == FindSector(secs1, sector_coords)
        ci == point_to_index(CHUNK, And15V(chunk_coords))
    IN IF ci.kind # "ok" THEN [w |-> secs1, ret |-> Panic]
       ELSE [w |-> [secs1 EXCEPT ![si].chunks =
                       Put(@, ci.val, VoxelChunk_new(chunk_coords, "Loaded"))],
             ret |-> Ok(0)]

\* An init_chunk that starts a Loading chunk afresh.
init_chunkResetting(secs, chunk_coords) ==
    LET sector_coords == ShrV(chunk_coords, 4)
        secs1 == WithSector(secs, sector_coords)
        si == FindSector(secs1, sector_coords)
        ci == point_to_index(CHUNK, And15V(chunk_coords))
    IN IF ci.val \in DOMAIN secs1[si].chunks
          /\ secs1[si].chunks[ci.val].load_state = "Loaded"
       THEN [w |-> secs1, ret |-> Err]
       ELSE [w |-> [secs1 EXCEPT ![si].chunks =
                       Put(@, ci.val, VoxelChunk_new(chunk_coords, "Loaded"))],
             ret |-> Ok(0)]

\* VoxelWorld::init_chunk
init_chunk(secs, chunk_coords) ==
    LET sector_coords == ShrV(chunk_coords, 4)
        secs1 == WithSector(secs, sector_coords)
        si == FindSector(secs1, sector_coords)
        ci == point_to_index(CHUNK, And15V(chunk_coords))
    IN IF ci.kind # "ok" THEN [w |-> secs1, ret |-> Panic]
       ELSE IF ci.val \in DOMAIN secs1[si].chunks
            THEN IF secs1[si].chunks[ci.val].load_state = "Loaded"
                 THEN [w |-> secs1, ret |-> Err]
                 ELSE [w |-> [secs1 EXCEPT
                                ![si].chunks[ci.val].load_state = "Loaded"],
                       ret |-> Ok(0)]
            ELSE [w |-> [secs1 EXCEPT ![si].chunks =
                            Put(@, ci.val, VoxelChunk_new(chunk_coords, "Loaded"))],
                  ret |-> Ok(0)]

\* An unload that takes every chunk of the world with it.
unload_chunkClearing(secs, chunk_coords) ==
    IF \E i \in 1..Len(secs) :
          /\ secs[i].sector_coords = ShrV(chunk_coords, 4)
          /\ point_to_index(CHUNK, And15V(chunk_coords)).val \in DOMAIN secs[i].chunks
    THEN [w |-> <<>>, ret |-> Ok(0)]
    ELSE [w |-> secs, ret |-> Err]

\* VoxelWorld::unload_chunk
unload_chunk(secs, chunk_coords) ==
    LET si == FindSector(secs, ShrV(chunk_coords, 4))
    IN IF si = 0 THEN [w |-> secs, ret |-> Err]
       ELSE LET ci == point_to_index(CHUNK, And15V(chunk_coords))
            IN IF ci.kind # "ok" THEN [w |-> secs, ret |-> Panic]
               ELSE IF ci.val \notin DOMAIN secs[si].chunks
                    THEN [w |-> secs, ret |-> Err]
                    ELSE [w |-> [secs EXCEPT ![si].chunks = Del(@, ci.val)],
                          ret |-> Ok(0)]

\* The elements of a finite set of integers in increasing order.
RECURSIVE SortedSeq(_)
SortedSeq(S) ==
    IF S = {} THEN <<>>
    ELSE LET m == CHOOSE x \in S : \A y \in S : x <= y
         IN <<m>> \o SortedSeq(S \ {m})

\* The point of Region::CHUNK.iter() whose point_to_index is i.
ChunkPointOfIndex(i) == <<i \div 256, (i \div 16) % 16, i % 16>>

\* The chunk_list pushes of one sector in unload_all_chunks: the occupied
\* slots in the order of Region::CHUNK.iter().
SectorChunkList(sector) ==
    LET order == SortedSeq(DOMAIN sector.chunks)
    IN [k \in 1..Len(order) |->
           VAdd(ChunkPointOfIndex(order[k]), ShlV(sector.sector_coords, 4))]

RECURSIVE WorldChunkList(_)
WorldChunkList(secs) ==
    IF secs = <<>> THEN <<>>
    ELSE SectorChunkList(Head(secs)) \o WorldChunkList(Tail(secs))

\* An unload_all_chunks that lists the chunks and leaves them where they are.
unload_all_chunksListing(secs) == [w |-> secs, list |-> WorldChunkList(secs)]

\* VoxelWorld::unload_all_chunks: the world after the call and the list
\* the call returns.
unload_all_chunks(secs) == [w |-> <<>>, list |-> WorldChunkList(secs)]

\* VoxelWorld::get_chunk_load_state
get_chunk_load_state(secs, chunk_coords) ==
    LET si == FindSector(secs, ShrV(chunk_coords, 4))
        ci == point_to_index(CHUNK, And15V(chunk_coords))
    IN IF si = 0 THEN "Unloaded"
       ELSE IF ci.kind # "ok" THEN "Panic"
       ELSE IF ci.val \notin DOMAIN secs[si].chunks THEN "Unloaded"
       ELSE secs[si].chunks[ci.val].load_state

(***************************************************************************)
(* The storage specifications.  Calls are made on a fixed list of block    *)
(* coordinates and on the chunks that hold them.                           *)
(***************************************************************************)
AllPoints == << <<-1, -1, -1>>, <<-2, -1, -1>>, <<255, 255, 255>>,
                <<-17, -1, -1>>, <<15, 128, -3>>, <<0, 0, 0>> >>
TestPoints == {AllPoints[i] : i \in 1..NumPoints}
TestChunks == {ShrV(q, 4) : q \in TestPoints}

NoList == <<>>
Call(op, at, data, ret, list) ==
    [op |-> op, at |-> at, data |-> data, ret |-> ret, list |-> list]

IdleStorage ==
    /\ sectors = <<>>
    /\ shadow = [q \in TestPoints |-> Default]
    /\ lastOp = Call("none", <<0, 0, 0>>, 0, Ok(0), NoList)
IdleCoords == coord = [called |-> FALSE]
IdleRegion ==
    /\ region = CHUNK
    /\ probe = [called |-> FALSE, point |-> <<0, 0, 0>>, ret |-> Ok(0)]
IdleIter ==
    /\ iter = [min |-> <<0, 0, 0>>, max |-> <<0, 0, 0>>, next |-> <<>>]
    /\ yielded = <<>>
    /\ lastNext = [calls |-> 0, ret |-> <<>>]
IdleLoad ==
    /\ offsets = {}
    /\ chunk_load_ev = <<>>
    /\ passes = 0
IdleSched ==
    /\ ents = <<>>
    /\ pointers = <<>>
    /\ anchors = <<>>
    /\ cmds = <<>>
    /\ ran = {}
    /\ stage = "idle"
    /\ picked = {}

\* VoxelWorld::default(): no sectors.
InitBlocks ==
    /\ IdleStorage /\ IdleCoords /\ IdleRegion /\ IdleIter /\ IdleSched /\ IdleLoad

DoGetBlock(q) ==
    /\ sectors' = sectors
    /\ lastOp' = Call("get_block", q, 0, get_block(sectors, q), NoList)

DoSetBlock(q, data) ==
    LET r == set_block(sectors, q, data)
    IN /\ sectors' = r.w
       /\ lastOp' = Call("set_block", q, data, r.ret, NoList)

DoInitChunk(c) ==
    LET r == init_chunk(sectors, c)
    IN /\ sectors' = r.w
       /\ lastOp' = Call("init_chunk", c, 0, r.ret, NoList)

DoUnloadChunk(c) ==
    LET r == unload_chunk(sectors, c)
    IN /\ sectors' = r.w
       /\ lastOp' = Call("unload_chunk", c, 0, r.ret, NoList)

DoPrepareChunk(c) ==
    LET r == prepare_chunk(sectors, c)
    IN /\ sectors' = r.w
       /\ lastOp' = Call("prepare_chunk", c, 0, r.ret, NoList)

DoUnloadAllChunks ==
    LET r == unload_all_chunks(sectors)
    IN /\ sectors' = r.w
       /\ lastOp' = Call("unload_all_chunks", <<0, 0, 0>>, 0, Ok(0), r.list)

\* The history variable follows the call just made: a successful set_block
\* records its value, a successful init_chunk starts its chunk afresh.
TrackShadow ==
    shadow' =
        IF lastOp'.ret.kind # "ok" THEN shadow
        ELSE IF lastOp'.op = "set_block"
             THEN [shadow EXCEPT ![lastOp'.at] = lastOp'.data]
        ELSE IF lastOp'.op = "init_chunk"
             THEN [q \in TestPoints |->
                     IF <<q[1] \div 16, q[2] \div 16, q[3] \div 16>> = lastOp'.at
                     THEN Default ELSE shadow[q]]
        ELSE shadow

OtherThanStorage ==
    UNCHANGED <<coordVars, regionVars, iterVars, schedVars, loadVars>>

BGetBlock ==
    /\ \E q \in TestPoints : DoGetBlock(q)
    /\ TrackShadow /\ OtherThanStorage
BSetBlock ==
    /\ \E q \in TestPoints, data \in Values : DoSetBlock(q, data)
    /\ TrackShadow /\ OtherThanStorage
BInitChunk ==
    /\ \E c \in TestChunks : DoInitChunk(c)
    /\ TrackShadow /\ OtherThanStorage
BUnloadChunk ==
    /\ \E c \in TestChunks : DoUnloadChunk(c)
    /\ TrackShadow /\ OtherThanStorage

NextBlocks == BGetBlock \/ BSetBlock \/ BInitChunk \/ BUnloadChunk

CGetBlock ==
    /\ \E q \in TestPoints : DoGetBlock(q)
    /\ UNCHANGED shadow /\ OtherThanStorage
CSetBlock ==
    /\ \E q \in TestPoints, data \in Values : DoSetBlock(q, data)
    /\ UNCHANGED shadow /\ OtherThanStorage
CInitChunk ==
    /\ \E c \in TestChunks : DoInitChunk(c)
    /\ UNCHANGED shadow /\ OtherThanStorage
CUnloadChunk ==
    /\ \E c \in TestChunks : DoUnloadChunk(c)
    /\ UNCHANGED shadow /\ OtherThanStorage
CPrepareChunk ==
    /\ \E c \in TestChunks : DoPrepareChunk(c)
    /\ UNCHANGED shadow /\ OtherThanStorage
CUnloadAllChunks ==
    /\ DoUnloadAllChunks
    /\ UNCHANGED shadow /\ OtherThanStorage

NextChunks ==
    \/ CGetBlock \/ CSetBlock \/ CInitChunk \/ CUnloadChunk
    \/ CPrepareChunk \/ CUnloadAllChunks

SpecBlocks == InitBlocks /\ [][NextBlocks]_vars
SpecChunks == InitBlocks /\ [][NextChunks]_vars

(***************************************************************************)
(* What the storage claims say, in terms of plain floor arithmetic.        *)
(***************************************************************************)
FloorChunk(q) == <<q[1] \div 16, q[2] \div 16, q[3] \div 16>>
FloorSector(c) == <<c[1] \div 16, c[2] \div 16, c[3] \div 16>>
FloorSlot(c) == (c[1] % 16) * 256 + (c[2] % 16) * 16 + (c[3] % 16)

\* The chunk at chunk coordinate c is present in the world.
Present(secs, c) ==
    \E i \in 1..Len(secs) :
        /\ secs[i].sector_coords = FloorSector(c)
        /\ FloorSlot(c) \in DOMAIN secs[i].chunks

\* The chunk at chunk coordinate c is present and Loaded.
IsLoaded(secs, c) ==
    \E i \in 1..Len(secs) :
        /\ secs[i].sector_coords = FloorSector(c)
        /\ FloorSlot(c) \in DOMAIN secs[i].chunks
        /\ secs[i].chunks[FloorSlot(c)].load_state = "Loaded"

HasSector(secs, c) ==
    \E i \in 1..Len(secs) : secs[i].sector_coords = FloorSector(c)

\* C1 as stated: after any sequence of init_chunk, set_block and unload_chunk
\* calls, get_block(p) is the value of the most recent successful
\* set_block(p, v) made since the chunk of p was last initialised, the
\* default if there was none.  (Fails: after init_chunk, set_block(p, v),
\* unload_chunk the read gives the default, not v.)
C1_ReadsLastWrite ==
    \A q \in TestPoints : get_block(sectors, q) = Ok(shadow[q])

\* C1 as amended: while the chunk of p is present, get_block(p) is the value
\* of the most recent successful set_block(p, v) since that chunk was last
\* initialised (the default if none); while it is not present, get_block(p)
\* is the default.  A successful set_block(p, v) makes get_block(p) = v and
\* changes get_block at no other coordinate.
C1_ReadsLastWriteWhilePresent ==
    /\ [](\A q \in TestPoints :
            get_block(sectors, q) =
                Ok(IF Present(sectors, FloorChunk(q)) THEN shadow[q]
                   ELSE Default))
    /\ [][(lastOp'.op = "set_block" /\ lastOp'.ret.kind = "ok") =>
            /\ get_block(sectors', lastOp'.at) = Ok(lastOp'.data)
            /\ \A q \in TestPoints \ {lastOp'.at} :
                   get_block(sectors', q) = get_block(sectors, q)]_vars

\* C1's case: a non-default value was just written at (-1,-1,-1) and reads
\* back, while its neighbour in the same chunk reads something else.
C1_Witness ==
    /\ lastOp.op = "set_block" /\ lastOp.ret.kind = "ok"
    /\ lastOp.at = <<-1, -1, -1>> /\ lastOp.data # Default
    /\ get_block(sectors, <<-1, -1, -1>>) = Ok(lastOp.data)
    /\ get_block(sectors, <<-2, -1, -1>>) # Ok(lastOp.data)

\* C2: init_chunk(c) on a chunk that is already Loaded returns an error and
\* leaves the whole world (every sector, chunk, load state and block) as it
\* was.
C2_InitLoadedFails ==
    [][(lastOp'.op = "init_chunk" /\ IsLoaded(sectors, lastOp'.at)) =>
          /\ lastOp'.ret.kind = "err"
          /\ sectors' = sectors
          /\ IsLoaded(sectors', lastOp'.at)]_vars

\* C2's case: init_chunk just failed on a chunk that holds a written block.
C2_Witness ==
    /\ lastOp.op = "init_chunk" /\ lastOp.ret.kind = "err"
    /\ \E q \in TestPoints :
          /\ FloorChunk(q) = lastOp.at
          /\ get_block(sectors, q) \notin {Ok(Default), Panic}

\* C3: get_block(p) never fails or panics; it returns the default when the
\* sector of p is absent or the chunk slot of p is empty; and a get_block
\* call leaves the world as it was.
C3_GetBlockTotal ==
    /\ [](\A q \in TestPoints :
            /\ get_block(sectors, q).kind = "ok"
            /\ ~Present(sectors, FloorChunk(q)) =>
                   get_block(sectors, q) = Ok(Default))
    /\ [][lastOp'.op = "get_block" =>
            /\ lastOp'.ret.kind = "ok"
            /\ ~Present(sectors, FloorChunk(lastOp'.at)) =>
                   lastOp'.ret = Ok(Default)
            /\ sectors' = sectors]_vars

\* C3's case: a get_block on a sector that exists but whose slot for the
\* coordinate is empty, while another chunk holds a written block.
C3_Witness ==
    /\ lastOp.op = "get_block" /\ lastOp.ret = Ok(Default)
    /\ HasSector(sectors, FloorChunk(lastOp.at))
    /\ ~Present(sectors, FloorChunk(lastOp.at))
    /\ \E q \in TestPoints : get_block(sectors, q) \notin {Ok(Default), Panic}

\* C4: set_block(p, v) returns an error when the sector of p does not exist
\* or the chunk slot of p is empty, and then the world is unchanged (nothing
\* is created) and get_block(p) still returns the default.
C4_SetBlockAbsentFails ==
    [][(lastOp'.op = "set_block" /\ ~Present(sectors, FloorChunk(lastOp'.at))) =>
          /\ lastOp'.ret.kind = "err"
          /\ sectors' = sectors
          /\ get_block(sectors', lastOp'.at) = Ok(Default)]_vars

\* C4's case: a failed write of a non-default value, once with the sector
\* missing altogether and once with the sector there and the slot empty.
C4_Witness ==
    /\ lastOp.op = "set_block" /\ lastOp.ret.kind = "err"
    /\ lastOp.data # Default
    /\ HasSector(sectors, FloorChunk(lastOp.at))
    /\ ~Present(sectors, FloorChunk(lastOp.at))

\* C5: the sector collection never holds a sector whose chunk slots are all
\* empty.  (Fails: unload_chunk clears the slot and keeps the sector.)
C5_NoEmptySector ==
    \A i \in 1..Len(sectors) : DOMAIN sectors[i].chunks # {}

(***************************************************************************)
(* SpecCoords: the decomposition of a block coordinate that get_block and  *)
(* set_block use, applied to coordinates around the chunk and sector       *)
(* boundaries on both sides of zero.                                       *)
(***************************************************************************)
CoordAxis == (-MaxCoord)..MaxCoord
CoordSide == {-256, -1, 0, 17}
CoordPoints ==
    {<<x, y, y>> : x \in CoordAxis, y \in CoordSide}
        \cup {<<y, x, y>> : x \in CoordAxis, y \in {-1}}
        \cup {<<y, y, x>> : x \in CoordAxis, y \in {-1}}

Undecomposed(block_coords) ==
    [called |-> FALSE,
     p      |-> block_coords,
     sector |-> <<0, 0, 0>>,
     chunk  |-> <<0, 0, 0>>,
     slot   |-> <<0, 0, 0>>,
     cell   |-> <<0, 0, 0>>]

Decomposition(block_coords) ==
    [called |-> TRUE,
     p      |-> block_coords,
     sector |-> SectorOf(block_coords),
     chunk  |-> ShrV(block_coords, 4),
     slot   |-> SlotOf(block_coords),
     cell   |-> CellOf(block_coords)]

InitCoords ==
    /\ coord \in {Undecomposed(q) : q \in CoordPoints}
    /\ IdleStorage /\ IdleRegion /\ IdleIter /\ IdleSched /\ IdleLoad

Decompose ==
    /\ ~coord.called
    /\ coord' = Decomposition(coord.p)
    /\ UNCHANGED <<storageVars, regionVars, iterVars, schedVars, loadVars>>

NextCoords == Decompose

SpecCoords == InitCoords /\ [][NextCoords]_vars

InNibble(v) == \A k \in 1..3 : v[k] \in 0..15

\* C6: for every signed block coordinate p, sector = p >> 8,
\* slot = (p >> 4) & 15 and cell = p & 15 satisfy
\* p = sector*256 + slot*16 + cell with slot and cell in 0..15, so that no two
\* coordinates share (sector, slot, cell); block (-1,-1,-1) lies in sector
\* (-1,-1,-1), chunk (-1,-1,-1), slot (15,15,15), cell (15,15,15).
C6_Decomposition ==
    coord.called =>
        /\ InNibble(coord.slot) /\ InNibble(coord.cell)
        /\ \A k \in 1..3 :
              coord.p[k] = coord.sector[k] * 256 + coord.slot[k] * 16
                              + coord.cell[k]
        /\ \A k \in 1..3 : \A x \in CoordAxis :
              LET q == [coord.p EXCEPT ![k] = x]
              IN q # coord.p =>
                    <<SectorOf(q), SlotOf(q), CellOf(q)>>
                        # <<coord.sector, coord.slot, coord.cell>>
        /\ coord.p = <<-1, -1, -1>> =>
              /\ coord.sector = <<-1, -1, -1>>
              /\ coord.chunk = <<-1, -1, -1>>
              /\ coord.slot = <<15, 15, 15>>
              /\ coord.cell = <<15, 15, 15>>

\* C6's case: block (-1,-1,-1) has been decomposed.
C6_Witness ==
    /\ coord.called
    /\ coord.p = <<-1, -1, -1>>
    /\ coord.sector = <<-1, -1, -1>>
    /\ coord.cell = <<15, 15, 15>>

(***************************************************************************)
(* SpecRegion: contains and point_to_index on regions of every size up to *)
(* MaxSize per axis, at positions on both sides of zero.                   *)
(***************************************************************************)
RegionBases == {<<-20, 2, -3>>, <<0, 0, 0>>, <<-1, 0, 2>>}
Sizes == {<<x, y, z>> : x \in 1..MaxSize, y \in 1..MaxSize, z \in 1..MaxSize}

\* Region::from_size
from_size(pos, size) ==
    IF size[1] <= 0 \/ size[2] <= 0 \/ size[3] <= 0 THEN Err
    ELSE Ok(Region(pos, size))

TestRegions == {from_size(b, sz).val : b \in RegionBases, sz \in Sizes}

\* The points of r and the layer of points around it.
Hull(r) ==
    {<<x, y, z>> : x \in (r.pos[1] - 1)..(r.pos[1] + r.size[1]),
                   y \in (r.pos[2] - 1)..(r.pos[2] + r.size[2]),
                   z \in (r.pos[3] - 1)..(r.pos[3] + r.size[3])}

InitRegion ==
    /\ region \in TestRegions
    /\ probe = [called |-> FALSE, point |-> <<0, 0, 0>>, ret |-> Ok(0)]
    /\ IdleStorage /\ IdleCoords /\ IdleIter /\ IdleSched /\ IdleLoad

PointToIndex ==
    /\ \E q \in Hull(region) :
          probe' = [called |-> TRUE, point |-> q,
                    ret |-> point_to_index(region, q)]
    /\ UNCHANGED <<region, storageVars, coordVars, iterVars, schedVars, loadVars>>

NextRegion == PointToIndex

SpecRegion == InitRegion /\ [][NextRegion]_vars

\* p lies in the cuboid of r.
InCuboid(r, q) ==
    \A k \in 1..3 : r.pos[k] <= q[k] /\ q[k] < r.pos[k] + r.size[k]

RowMajor(r, q) ==
    (q[1] - r.pos[1]) * r.size[2] * r.size[3]
        + (q[2] - r.pos[2]) * r.size[3] + (q[3] - r.pos[3])

\* C7: point_to_index(p) is Ok exactly for the points with R.contains(p), and
\* on those points it is a bijection onto 0..R.count()-1, given by
\* x*size.y*size.z + y*size.z + z on the offset from R.min().
C7_IndexBijection ==
    LET pts == {q \in Hull(region) : InCuboid(region, q)}
    IN /\ probe.called =>
            /\ (probe.ret.kind = "ok") <=> contains(region, probe.point)
            /\ contains(region, probe.point) <=> InCuboid(region, probe.point)
            /\ probe.ret.kind = "ok" =>
                   probe.ret.val = RowMajor(region, probe.point)
            /\ probe.ret.kind \in {"ok", "err"}
       /\ \A q \in pts : point_to_index(region, q).kind = "ok"
       /\ {point_to_index(region, q).val : q \in pts} = 0..(count(region) - 1)
       /\ \A q1, q2 \in pts :
              q1 # q2 => point_to_index(region, q1) # point_to_index(region, q2)

\* C7's case: the last point of a region at a negative position, with more
\* than one point along every axis, got the last index.
C7_Witness ==
    /\ probe.called /\ probe.ret.kind = "ok"
    /\ region.pos[1] < 0 /\ region.pos[3] < 0
    /\ \A k \in 1..3 : region.size[k] > 1
    /\ probe.ret.val = count(region) - 1

(***************************************************************************)
(* SpecIter: CuboidIterator (src/src/math/iterators.rs).  Some(v) is <<v>>,*)
(* None is <<>>.                                                           *)
(***************************************************************************)
\* CuboidIterator::from
CuboidIterator_from(r) == [min |-> RMin(r), max |-> RMax(r), next |-> <<RMin(r)>>]

\* A next() that steps x first and z last.
CuboidIterator_nextXFirst(it) ==
    IF it.next = <<>> THEN [it |-> it, ret |-> <<>>]
    ELSE LET cur == it.next[1]
             v1 == [cur EXCEPT ![1] = @ + 1]
             v2 == [v1 EXCEPT ![1] = it.min[1], ![2] = @ + 1]
             v3 == [v2 EXCEPT ![2] = it.min[2], ![3] = @ + 1]
             nxt == IF v1[1] > it.max[1]
                    THEN IF v2[2] > it.max[2]
                         THEN IF v3[3] > it.max[3] THEN <<>> ELSE <<v3>>
                         ELSE <<v2>>
                    ELSE <<v1>>
         IN [it |-> [it EXCEPT !.next = nxt], ret |-> <<cur>>]

\* CuboidIterator::next: the iterator after the call and what it returns.
CuboidIterator_next(it) ==
    IF it.next = <<>> THEN [it |-> it, ret |-> <<>>]
    ELSE LET cur == it.next[1]
             v1 == [cur EXCEPT ![3] = @ + 1]
             v2 == [v1 EXCEPT ![3] = it.min[3], ![2] = @ + 1]
             v3 == [v2 EXCEPT ![2] = it.min[2], ![1] = @ + 1]
             nxt == IF v1[3] > it.max[3]
                    THEN IF v2[2] > it.max[2]
                         THEN IF v3[1] > it.max[1] THEN <<>> ELSE <<v3>>
                         ELSE <<v2>>
                    ELSE <<v1>>
         IN [it |-> [it EXCEPT !.next = nxt], ret |-> <<cur>>]

InitIter ==
    /\ region \in TestRegions
    /\ iter = CuboidIterator_from(region)
    /\ yielded = <<>>
    /\ lastNext = [calls |-> 0, ret |-> <<>>]
    /\ probe = [called |-> FALSE, point |-> <<0, 0, 0>>, ret |-> Ok(0)]
    /\ IdleStorage /\ IdleCoords /\ IdleSched /\ IdleLoad

\* One call of next() on the iterator.
IterNext ==
    /\ lastNext.calls < count(region) + MaxExtraCalls
    /\ LET r == CuboidIterator_next(iter)
       IN /\ iter' = r.it
          /\ yielded' = yielded \o r.ret
          /\ lastNext' = [calls |-> lastNext.calls + 1, ret |-> r.ret]
    /\ UNCHANGED <<region, probe, storageVars, coordVars, schedVars, loadVars>>

\* Region::iter() again: a fresh iterator over the same region.
IterRestart ==
    /\ iter' = CuboidIterator_from(region)
    /\ yielded' = <<>>
    /\ lastNext' = [calls |-> 0, ret |-> <<>>]
    /\ UNCHANGED <<region, probe, storageVars, coordVars, schedVars, loadVars>>

NextIter == IterNext \/ IterRestart

SpecIter == InitIter /\ [][NextIter]_vars

\* C8: the k-th point yielded (from 0) has point_to_index k, so every point
\* is yielded once with x slowest and z fastest; after count() points next()
\* returns None, and it returns None on every further call.
C8_IterOrder ==
    /\ Len(yielded) <= count(region)
    /\ \A k \in 1..Len(yielded) :
          /\ point_to_index(region, yielded[k]) = Ok(k - 1)
          /\ yielded[k] = <<region.pos[1] + ((k - 1) \div (region.size[2] * region.size[3])),
                            region.pos[2] + (((k - 1) \div region.size[3]) % region.size[2]),
                            region.pos[3] + ((k - 1) % region.size[3])>>
    /\ (lastNext.calls >= 1 /\ lastNext.calls <= count(region)) =>
          /\ Len(yielded) = lastNext.calls
          /\ lastNext.ret = <<yielded[lastNext.calls]>>
    /\ lastNext.calls > count(region) =>
          /\ lastNext.ret = <<>>
          /\ Len(yielded) = count(region)
          /\ iter.next = <<>>
    /\ lastNext.calls = 0 => yielded = <<>>

\* C8's case: a region at a negative position with several points on every
\* axis was iterated to the end and next() was called twice more.
C8_Witness ==
    /\ lastNext.calls = count(region) + 2
    /\ lastNext.ret = <<>>
    /\ region.pos[1] < 0
    /\ \A k \in 1..3 : region.size[k] > 1

(***************************************************************************)
(* SpecGen: the world-generation plugin of crates/bones3_worldgen (lib.rs, *)
(* ecs/systems.rs) on top of the chunk anchors and voxel commands of       *)
(* crates/bones3_core.  A frame runs the Update stage and then the         *)
(* PostUpdate stage.  The systems of a stage run one at a time, each once, *)
(* in any order the set configuration allows; the commands they queue are  *)
(* applied when the stage ends.  Generation tasks complete at any moment.   *)
(* Option<T>: None is <<>>, Some(v) is <<v>>.                              *)
(***************************************************************************)
None == <<>>
Some(v) == <<v>>

\* The maximum number of async world generation tasks (systems.rs).
MAX_TASKS == 3

\* The VoxelWorld entities, and those that carry a WorldGeneratorHandler.
WorldIds == {1, 2}
GeneratorWorlds == {1}

F32Max(a, b) == IF a >= b THEN a ELSE b
Abs(x) == IF x >= 0 THEN x ELSE -x
Sign(x) == IF x > 0 THEN 1 ELSE IF x < 0 THEN -1 ELSE 0
Dot(a, b) == a[1] * b[1] + a[2] * b[2] + a[3] * b[3]
\* Vec3::distance; the anchors and chunks of the model lie on one axis, where
\* the distance is a whole number.
Distance(a, b) ==
    LET d == VSub(a, b)
        d2 == Dot(d, d)
    IN CHOOSE r \in 0..d2 : r * r = d2
\* Vec3::normalize_or_zero of an axis-aligned vector.
normalize_or_zero(v) == <<Sign(v[1]), Sign(v[2]), Sign(v[3])>>

\* An entity with ChunkAnchor::new(world_id, radius) and a GlobalTransform.
AnchorAt(world_id, radius, translation) ==
    [world_id    |-> world_id,
     radius      |-> radius,
     weight      |-> 1,
     dir_bias    |-> <<0, 0, 0>>,
     coords      |-> None,
     translation |-> translation]

\* ChunkAnchor::get_priority
get_priority(anchor, target) ==
    IF anchor.coords = None THEN None
    ELSE LET coords == anchor.coords[1]
             delta == VSub(coords, target)
         IN IF \E k \in 1..3 : Abs(delta[k]) > anchor.radius[k] THEN None
            ELSE LET distance == Distance(coords, target)
                     view_dir == normalize_or_zero(VSub(target, coords))
                     weight == Dot(view_dir, anchor.dir_bias)
                 IN Some((-distance + weight) * anchor.weight)

\* ChunkAnchor::get_region
get_region(anchor) ==
    IF anchor.coords = None THEN None
    ELSE Some(from_points(VSub(anchor.coords[1], anchor.radius),
                          VAdd(anchor.coords[1], anchor.radius)))

\* Every point a CuboidIterator still has to yield, in order.
RECURSIVE Collect(_)
Collect(it) ==
    IF it.next = <<>> THEN <<>>
    ELSE LET r == CuboidIterator_next(it) IN r.ret \o Collect(r.it)

\* A chunk entity as spawn_chunk creates it: VoxelChunk::new(world, coords)
\* and none of the components the plugins add later.
ChunkEntity(world_id, chunk_coords) ==
    [alive        |-> TRUE,
     world_id     |-> world_id,
     chunk_coords |-> chunk_coords,
     recipient    |-> None,       \* ChunkAnchorRecipient: Some(priority)
     pending      |-> FALSE,      \* PendingLoadChunkTask
     task         |-> "none",     \* LoadChunkTask: none / running / done
     storage      |-> FALSE]      \* VoxelStorage

Ids(es) == [i \in 1..Len(es) |-> i]

\* A queued command.
Cmd(op, e, world_id, chunk_coords) ==
    [op |-> op, e |-> e, world_id |-> world_id, chunk_coords |-> chunk_coords]
EntityCmd(op, e) == Cmd(op, e, 0, <<0, 0, 0>>)

\* VoxelWorldCommands::get_chunk_id
get_chunk_id(es, ptrs, world_id, chunk_coords) ==
    IF world_id \notin DOMAIN ptrs THEN None
    ELSE IF chunk_coords \notin DOMAIN ptrs[world_id] THEN None
    ELSE IF ~es[ptrs[world_id][chunk_coords]].alive THEN None
    ELSE Some(ptrs[world_id][chunk_coords])

\* What one command does to the ECS world when the buffers are applied.
\*   spawn          Commands::spawn, then UpdateChunkPointersAction(Some(id))
\*   despawn        despawn_recursive, then UpdateChunkPointersAction(None)
\*   despawn_recursive   despawn_recursive alone; it ignores a missing entity
\*   anything else  EntityCommands::insert / remove on entity e, which panics
\*                  when e has been despawned
ApplyCommand(w, c) ==
    IF w.panicked THEN w
    ELSE IF c.op = "spawn" THEN
        LET es == Append(w.ents, ChunkEntity(c.world_id, c.chunk_coords))
        IN IF c.chunk_coords \in DOMAIN w.pointers[c.world_id]
           THEN [w EXCEPT !.ents = es, !.panicked = TRUE]
           ELSE [w EXCEPT !.ents = es,
                          !.pointers[c.world_id] = Put(@, c.chunk_coords, Len(es))]
    ELSE IF c.op = "despawn" THEN
        [w EXCEPT !.ents[c.e].alive = FALSE,
                  !.pointers[c.world_id] = Del(@, c.chunk_coords)]
    ELSE IF c.op = "despawn_recursive" THEN [w EXCEPT !.ents[c.e].alive = FALSE]
    ELSE IF ~w.ents[c.e].alive THEN [w EXCEPT !.panicked = TRUE]
    ELSE IF c.op = "insert_pending" THEN [w EXCEPT !.ents[c.e].pending = TRUE]
    ELSE IF c.op = "start_task" THEN
        [w EXCEPT !.ents[c.e].pending = FALSE, !.ents[c.e].task = "running"]
    ELSE IF c.op = "insert_default_storage" THEN
        [w EXCEPT !.ents[c.e].pending = FALSE, !.ents[c.e].storage = TRUE]
    ELSE IF c.op = "finish_task" THEN
        [w EXCEPT !.ents[c.e].task = "none", !.ents[c.e].storage = TRUE]
    ELSE IF c.op = "insert_recipient" THEN
        [w EXCEPT !.ents[c.e].recipient = Some(None)]
    ELSE w

RECURSIVE ApplyAll(_, _)
ApplyAll(w, cs) ==
    IF cs = <<>> THEN w ELSE ApplyAll(ApplyCommand(w, Head(cs)), Tail(cs))

\* queue_chunks without its Without<..> filters.
queue_chunksUnfiltered(es) ==
    LET ids == SelectSeq(Ids(es), LAMBDA i : es[i].alive)
    IN [k \in 1..Len(ids) |-> EntityCmd("insert_pending", ids[k])]

\* queue_chunks: the commands it queues.
queue_chunks(es) ==
    LET ids == SelectSeq(Ids(es), LAMBDA i :
                   es[i].alive /\ ~es[i].storage /\ ~es[i].pending
                       /\ es[i].task = "none")
    IN [k \in 1..Len(ids) |-> EntityCmd("insert_pending", ids[k])]

\* The active_tasks query of push_chunk_async_queue.
active_tasks(es) == {i \in 1..Len(es) : es[i].alive /\ es[i].task # "none"}

\* A free-slot count that forgets the tasks already running.
available_slotsIgnoringActive(es) == MAX_TASKS

\* available_slots in push_chunk_async_queue
available_slots(es) == MAX_TASKS - Cardinality(active_tasks(es))

\* The chunks query of push_chunk_async_queue, narrowed by get_max_chunks to
\* the recipients whose priority is Some.
Candidates(es) ==
    {i \in 1..Len(es) : /\ es[i].alive /\ es[i].pending
                        /\ es[i].recipient # None
                        /\ es[i].recipient[1] # None}
PriorityOf(es, i) == es[i].recipient[1][1]

\* PriorityQueue::into_sorted_iter: every order with the priorities
\* descending; entries of equal priority come in any order.
RECURSIVE into_sorted_iter(_, _)
into_sorted_iter(es, S) ==
    IF S = {} THEN {<<>>}
    ELSE UNION {{<<m>> \o t : t \in into_sorted_iter(es, S \ {m})} :
                m \in {x \in S : \A y \in S : PriorityOf(es, x) >= PriorityOf(es, y)}}

Take(s, n) == SubSeq(s, 1, IF n < Len(s) THEN n ELSE Len(s))

\* get_max_chunks: the possible results.
get_max_chunks(es, max_chunks) ==
    {Take(s, max_chunks) : s \in into_sorted_iter(es, Candidates(es))}

\* push_chunk_async_queue that passes over the chunks of a world without
\* generator.
push_chunk_async_queueGeneratorsOnly(es) ==
    IF available_slots(es) <= 0 THEN {<<>>}
    ELSE {LET g == SelectSeq(s, LAMBDA i : es[i].world_id \in GeneratorWorlds)
          IN [k \in 1..Len(g) |-> EntityCmd("start_task", g[k])] :
          s \in get_max_chunks(es, available_slots(es))}

\* push_chunk_async_queue: the command lists it can queue.
push_chunk_async_queue(es) ==
    IF available_slots(es) <= 0 THEN {<<>>}
    ELSE {[k \in 1..Len(s) |->
              IF es[s[k]].world_id \in GeneratorWorlds
              THEN EntityCmd("start_task", s[k])
              ELSE EntityCmd("insert_default_storage", s[k])] :
          s \in get_max_chunks(es, available_slots(es))}

\* finish_chunk_loading: poll_once yields the data of the completed tasks.
finish_chunk_loading(es) ==
    LET ids == SelectSeq(Ids(es), LAMBDA i : es[i].alive /\ es[i].task = "done")
    IN [k \in 1..Len(ids) |-> EntityCmd("finish_task", ids[k])]

\* update_coords
update_coords(as) ==
    [k \in 1..Len(as) |->
        [as[k] EXCEPT !.coords =
            IF as[k].world_id \in WorldIds
            THEN Some(ShrV(as[k].translation, 4)) ELSE None]]

\* The loop over the anchors in update_chunk_priorities without the test of
\* the anchor's world.
RECURSIVE AnchorsPriorityAnyWorld(_, _, _, _)
AnchorsPriorityAnyWorld(as, chunk, k, acc) ==
    IF k > Len(as) THEN acc
    ELSE LET priority == get_priority(as[k], chunk.chunk_coords)
         IN IF priority = None THEN AnchorsPriorityAnyWorld(as, chunk, k + 1, acc)
            ELSE AnchorsPriorityAnyWorld(as, chunk, k + 1,
                     IF acc = None THEN priority
                     ELSE Some(F32Max(priority[1], acc[1])))

\* The loop over the anchors in update_chunk_priorities, from anchor k on.
RECURSIVE AnchorsPriority(_, _, _, _)
AnchorsPriority(as, chunk, k, acc) ==
    IF k > Len(as) THEN acc
    ELSE IF as[k].world_id # chunk.world_id
         THEN AnchorsPriority(as, chunk, k + 1, acc)
    ELSE LET priority == get_priority(as[k], chunk.chunk_coords)
         IN IF priority = None THEN AnchorsPriority(as, chunk, k + 1, acc)
            ELSE AnchorsPriority(as, chunk, k + 1,
                     IF acc = None THEN priority
                     ELSE Some(F32Max(priority[1], acc[1])))

\* update_chunk_priorities
update_chunk_priorities(as, es) ==
    [i \in 1..Len(es) |->
        IF es[i].alive /\ es[i].recipient # None
        THEN [es[i] EXCEPT !.recipient = Some(AnchorsPriority(as, es[i], 1, None))]
        ELSE es[i]]

\* attach_chunk_recipient_comp
attach_chunk_recipient_comp(es) ==
    LET ids == SelectSeq(Ids(es), LAMBDA i : es[i].alive /\ es[i].recipient = None)
    IN [k \in 1..Len(ids) |-> EntityCmd("insert_recipient", ids[k])]

\* create_chunk_entities, from anchor k on: spawn_chunk for every coordinate
\* of the anchor's region that get_chunk_id does not resolve.
RECURSIVE create_chunk_entities(_, _, _, _)
create_chunk_entities(as, es, ptrs, k) ==
    IF k > Len(as) THEN <<>>
    ELSE LET anchor == as[k]
             rest == create_chunk_entities(as, es, ptrs, k + 1)
         IN IF anchor.world_id \notin WorldIds THEN rest
            ELSE IF get_region(anchor) = None THEN rest
            ELSE LET pts == Collect(CuboidIterator_from(get_region(anchor)[1]))
                     new == SelectSeq(pts, LAMBDA c :
                                get_chunk_id(es, ptrs, anchor.world_id, c) = None)
                 IN [j \in 1..Len(new) |-> Cmd("spawn", 0, anchor.world_id, new[j])]
                        \o rest

\* unload_chunks without the test of the priority: every chunk that carries
\* a ChunkAnchorRecipient is queued for despawning.
unload_chunksAnyPriority(es, ptrs) ==
    LET ids == SelectSeq(Ids(es), LAMBDA i :
                   /\ es[i].alive
                   /\ es[i].recipient # None
                   /\ es[i].world_id \in WorldIds
                   /\ get_chunk_id(es, ptrs, es[i].world_id, es[i].chunk_coords) # None)
    IN [k \in 1..Len(ids) |->
           Cmd("despawn",
               get_chunk_id(es, ptrs, es[ids[k]].world_id, es[ids[k]].chunk_coords)[1],
               es[ids[k]].world_id, es[ids[k]].chunk_coords)]

\* unload_chunks
unload_chunks(es, ptrs) ==
    LET ids == SelectSeq(Ids(es), LAMBDA i :
                   /\ es[i].alive
                   /\ es[i].recipient # None
                   /\ es[i].recipient[1] = None
                   /\ es[i].world_id \in WorldIds
                   /\ get_chunk_id(es, ptrs, es[i].world_id, es[i].chunk_coords) # None)
    IN [k \in 1..Len(ids) |->
           Cmd("despawn",
               get_chunk_id(es, ptrs, es[ids[k]].world_id, es[ids[k]].chunk_coords)[1],
               es[ids[k]].world_id, es[ids[k]].chunk_coords)]

\* The anchors of a run: one wide anchor; anchors in two worlds and one whose
\* world does not exist; two anchors of one world with overlapping regions.
AnchorSets ==
    { << AnchorAt(1, <<GenRadius, 0, 0>>, <<0, 0, 0>>) >>,
      << AnchorAt(1, <<1, 0, 0>>, <<-20, 0, 0>>),
         AnchorAt(2, <<1, 0, 0>>, <<16, 0, 0>>),
         AnchorAt(3, <<1, 0, 0>>, <<0, 0, 0>>) >>,
      << AnchorAt(1, <<1, 0, 0>>, <<0, 0, 0>>),
         AnchorAt(1, <<1, 0, 0>>, <<17, 0, 0>>) >> }

UpdateSystems == {"queue_chunks", "push_chunk_async_queue", "finish_chunk_loading"}
PostUpdateSystems ==
    {"update_coords", "update_chunk_priorities", "attach_chunk_recipient_comp",
     "create_chunk_entities", "unload_chunks"}

NotPicked == [called |-> FALSE, g |-> 0, chosen |-> {}, pending |-> {}]

InitGen ==
    /\ anchors \in AnchorSets
    /\ ents = <<>>
    /\ pointers = [w \in WorldIds |-> Empty]
    /\ cmds = <<>>
    /\ ran = {}
    /\ stage = "Update"
    /\ picked = NotPicked
    /\ IdleStorage /\ IdleCoords /\ IdleRegion /\ IdleIter /\ IdleLoad

OtherThanSched ==
    UNCHANGED <<storageVars, coordVars, regionVars, iterVars, loadVars>>

\* System `name` of stage `st` runs now.
Runs(st, name) ==
    /\ stage = st
    /\ name \notin ran
    /\ ran' = ran \cup {name}
    /\ UNCHANGED stage

QueueChunks ==
    /\ Runs("Update", "queue_chunks")
    /\ cmds' = cmds \o queue_chunks(ents)
    /\ UNCHANGED <<ents, pointers, anchors, picked>>
    /\ OtherThanSched

PushChunkAsyncQueue ==
    /\ Runs("Update", "push_chunk_async_queue")
    /\ \E cs \in push_chunk_async_queue(ents) :
          /\ cmds' = cmds \o cs
          /\ picked' = [called  |-> TRUE,
                        g       |-> Cardinality(active_tasks(ents)),
                        chosen  |-> {cs[k].e : k \in 1..Len(cs)},
                        pending |-> {i \in 1..Len(ents) :
                                        ents[i].alive /\ ents[i].pending}]
    /\ UNCHANGED <<ents, pointers, anchors>>
    /\ OtherThanSched

FinishChunkLoading ==
    /\ Runs("Update", "finish_chunk_loading")
    /\ cmds' = cmds \o finish_chunk_loading(ents)
    /\ UNCHANGED <<ents, pointers, anchors, picked>>
    /\ OtherThanSched

\* The generator of a LoadChunkTask returns on the task pool.
TaskCompletes ==
    /\ stage \in {"Update", "PostUpdate"}
    /\ \E i \in 1..Len(ents) :
          /\ ents[i].alive /\ ents[i].task = "running"
          /\ ents' = [ents EXCEPT ![i].task = "done"]
    /\ UNCHANGED <<pointers, anchors, cmds, ran, stage, picked>>
    /\ OtherThanSched

\* The end of a stage: the command buffers are applied.
ApplyBuffers(st, systems, nextStage) ==
    /\ stage = st
    /\ ran = systems
    /\ LET w == ApplyAll([ents |-> ents, pointers |-> pointers, panicked |-> FALSE],
                         cmds)
       IN /\ ents' = w.ents
          /\ pointers' = w.pointers
          /\ stage' = IF w.panicked THEN "panicked" ELSE nextStage
    /\ cmds' = <<>>
    /\ ran' = {}
    /\ UNCHANGED <<anchors, picked>>
    /\ OtherThanSched

UpdateFlush == ApplyBuffers("Update", UpdateSystems, "PostUpdate")

UpdateCoords ==
    /\ Runs("PostUpdate", "update_coords")
    /\ anchors' = update_coords(anchors)
    /\ UNCHANGED <<ents, pointers, cmds, picked>>
    /\ OtherThanSched

UpdateChunkPriorities ==
    /\ "update_coords" \in ran
    /\ Runs("PostUpdate", "update_chunk_priorities")
    /\ ents' = update_chunk_priorities(anchors, ents)
    /\ UNCHANGED <<pointers, anchors, cmds, picked>>
    /\ OtherThanSched

AttachChunkRecipientComp ==
    /\ Runs("PostUpdate", "attach_chunk_recipient_comp")
    /\ cmds' = cmds \o attach_chunk_recipient_comp(ents)
    /\ UNCHANGED <<ents, pointers, anchors, picked>>
    /\ OtherThanSched

CreateChunkEntities ==
    /\ "update_coords" \in ran
    /\ Runs("PostUpdate", "create_chunk_entities")
    /\ cmds' = cmds \o create_chunk_entities(anchors, ents, pointers, 1)
    /\ UNCHANGED <<ents, pointers, anchors, picked>>
    /\ OtherThanSched

UnloadChunks ==
    /\ "update_chunk_priorities" \in ran
    /\ Runs("PostUpdate", "unload_chunks")
    /\ cmds' = cmds \o unload_chunks(ents, pointers)
    /\ UNCHANGED <<ents, pointers, anchors, picked>>
    /\ OtherThanSched

PostUpdateFlush == ApplyBuffers("PostUpdate", PostUpdateSystems, "Update")

NextGen ==
    \/ QueueChunks
    \/ PushChunkAsyncQueue
    \/ FinishChunkLoading
    \/ TaskCompletes
    \/ UpdateFlush
    \/ UpdateCoords
    \/ UpdateChunkPriorities
    \/ AttachChunkRecipientComp
    \/ CreateChunkEntities
    \/ UnloadChunks
    \/ PostUpdateFlush

SpecGen == InitGen /\ [][NextGen]_vars

\* C9: whatever the order of queue_chunks, push_chunk_async_queue and
\* finish_chunk_loading within a frame and whenever tasks complete, the number
\* of chunks holding a LoadChunkTask never exceeds MAX_TASKS.
C9_TasksBounded ==
    Cardinality({i \in DOMAIN ents : ents[i].alive /\ ents[i].task # "none"})
        <= MAX_TASKS

\* C9's case: MAX_TASKS chunks hold a task, push_chunk_async_queue has run
\* against them and admitted nothing, and a chunk with a priority still waits.
C9_Witness ==
    /\ Cardinality({i \in DOMAIN ents : ents[i].alive /\ ents[i].task # "none"})
           = MAX_TASKS
    /\ "push_chunk_async_queue" \in ran
    /\ picked.called /\ picked.g = MAX_TASKS /\ picked.chosen = {}
    /\ \E i \in DOMAIN ents :
          /\ ents[i].alive /\ ents[i].pending
          /\ ents[i].recipient # None /\ ents[i].recipient[1] # None

\* The alive chunk entities of world w at chunk coordinate c.
ChunksAt(w, c) ==
    {i \in DOMAIN ents : ents[i].alive /\ ents[i].world_id = w
                            /\ ents[i].chunk_coords = c}

\* C11: when the regions of several anchors of one world overlap,
\* create_chunk_entities and the flush that applies its commands leave at
\* most one chunk entity at every (world, chunk coordinate) and the frame
\* does not panic.
C11_OverlapSpawnsOnce ==
    /\ stage # "panicked"
    /\ \A i \in DOMAIN ents : Cardinality(ChunksAt(ents[i].world_id,
                                                   ents[i].chunk_coords)) <= 1

\* Where a chunk entity stands in its loading lifecycle.
Phase(e) ==
    IF e.storage THEN "Loaded"
    ELSE IF e.task # "none" THEN "Generating"
    ELSE IF e.pending THEN "Pending"
    ELSE "Unqueued"

\* A chunk entity carries at most one of PendingLoadChunkTask, LoadChunkTask
\* and VoxelStorage.
C13_OneMarker ==
    \A i \in DOMAIN ents :
        /\ ~(ents[i].pending /\ ents[i].task # "none")
        /\ ~(ents[i].pending /\ ents[i].storage)
        /\ ~(ents[i].task # "none" /\ ents[i].storage)

\* A step leaves the phase of a chunk entity alone or moves it one stage
\* forward, and it moves only when the commands of the Update systems are
\* applied; Pending -> Loaded is the path of a world without generator.
C13_Forward ==
    \A i \in DOMAIN ents :
        LET from == Phase(ents[i])
            to == Phase(ents'[i])
        IN \/ to = from
           \/ /\ stage = "Update" /\ stage' = "PostUpdate"
              /\ \/ from = "Unqueued" /\ to = "Pending"
                 \/ /\ from = "Pending" /\ to = "Generating"
                    /\ ents[i].world_id \in GeneratorWorlds
                 \/ from = "Generating" /\ to = "Loaded"
                 \/ /\ from = "Pending" /\ to = "Loaded"
                    /\ ents[i].world_id \notin GeneratorWorlds

\* C13: every chunk entity carries at most one of PendingLoadChunkTask,
\* LoadChunkTask and VoxelStorage, and its lifecycle only moves forward
\* (unqueued, Pending, Generating, Loaded, or Pending to Loaded in a world
\* without generator) for every order of queue_chunks,
\* push_chunk_async_queue and finish_chunk_loading within a tick.
C13_Lifecycle == []C13_OneMarker /\ [][C13_Forward]_vars

\* C13's case: a chunk of the world with a generator and a chunk of the
\* world without one are Loaded while another chunk is Generating and yet
\* another is Pending.
C13_Witness ==
    /\ \E i \in DOMAIN ents :
          ents[i].world_id \in GeneratorWorlds /\ Phase(ents[i]) = "Loaded"
    /\ \E i \in DOMAIN ents :
          ents[i].world_id \notin GeneratorWorlds /\ Phase(ents[i]) = "Loaded"
    /\ \E i \in DOMAIN ents : Phase(ents[i]) = "Generating"
    /\ \E i \in DOMAIN ents : Phase(ents[i]) = "Pending"

\* A step of the frame: a system runs or a stage ends.  These are the steps
\* of NextGen that change `ran` or `stage`, and one of them can be taken
\* whenever the stage is Update or PostUpdate.
Tick ==
    /\ stage \in {"Update", "PostUpdate"}
    /\ \E r \in SUBSET (UpdateSystems \cup PostUpdateSystems) :
       \E s \in {"Update", "PostUpdate", "panicked"} :
          /\ <<r, s>> # <<ran, stage>>
          /\ ran' = r
          /\ stage' = s

\* SpecGen with frames that keep running and generators that return: the
\* app runs its schedule every frame, and a task spawned on the
\* AsyncComputeTaskPool runs to its end.
SpecGenLive ==
    InitGen /\ [][NextGen]_vars /\ WF_<<ran, stage>>(Tick) /\ WF_vars(TaskCompletes)

\* Chunk c lies within the radius of an anchor of world w among `as`, by
\* floor division of the anchor's block position.
InRangeOf(as, w, c) ==
    \E k \in DOMAIN as :
        /\ as[k].world_id = w
        /\ \A a \in 1..3 :
              Abs((as[k].translation[a] \div 16) - c[a]) <= as[k].radius[a]
InAnchorRange(w, c) == InRangeOf(anchors, w, c)

\* The chunk coordinates SpecGen's anchors reach, and the (world, chunk)
\* pairs among them that some anchor set has in range.
GenCoords == {<<x, 0, 0>> : x \in -(GenRadius + 1)..(GenRadius + 1)}
GenReach ==
    {p \in WorldIds \X GenCoords : \E as \in AnchorSets : InRangeOf(as, p[1], p[2])}

PendingAt(w, c) == \E i \in ChunksAt(w, c) : ents[i].pending
DispatchedAt(w, c) ==
    \E i \in ChunksAt(w, c) : ents[i].task # "none" \/ ents[i].storage
LoadedAt(w, c) == \E i \in ChunksAt(w, c) : ents[i].storage

\* C14: with stationary anchors, frames that keep running and tasks that
\* complete, a chunk that is Pending and in range of an anchor of its world
\* is eventually dispatched and eventually Loaded (a Loaded chunk has been
\* dispatched: it left Pending for a task or for the default storage).
C14_PendingEventuallyLoaded ==
    \A p \in GenReach :
        (PendingAt(p[1], p[2]) /\ InAnchorRange(p[1], p[2])) ~> LoadedAt(p[1], p[2])

\* C14's case: MAX_TASKS chunks are Generating, push_chunk_async_queue has
\* run and chosen nothing, and a Pending chunk in range of an anchor waits
\* for a later frame.
C14_Witness ==
    /\ Cardinality(active_tasks(ents)) = MAX_TASKS
    /\ picked.called /\ picked.chosen = {}
    /\ \E w \in WorldIds : \E c \in GenCoords :
          /\ PendingAt(w, c) /\ InAnchorRange(w, c)
          /\ ~DispatchedAt(w, c)
          /\ \E i \in ChunksAt(w, c) :
                ents[i].recipient # None /\ ents[i].recipient[1] # None

\* C17: a pending chunk of a world without generator that
\* push_chunk_async_queue considers (it is Pending and has a priority when
\* the system runs) is resolved by that run to the default storage, however
\* many generation tasks of other worlds are in flight.
C17_NoGeneratorResolvesAtOnce ==
    (stage = "Update" /\ "push_chunk_async_queue" \in ran /\ picked.called)
        => \A i \in picked.pending :
              (/\ ents[i].world_id \notin GeneratorWorlds
               /\ ents[i].recipient # None /\ ents[i].recipient[1] # None)
                  => i \in picked.chosen

(***************************************************************************)
(* SpecQueue: push_chunk_async_queue and finish_chunk_loading of           *)
(* crates/bones3_worldgen/src/queue.rs with the ChunkAnchor of             *)
(* crates/bones3_worldgen/src/anchor.rs.  A run starts from a world whose  *)
(* chunks are pending, generating or loaded; the two systems run once per  *)
(* frame, in either order, and their commands are applied afterwards.      *)
(* An f32 is a whole number, negative infinity or NaN.                     *)
(***************************************************************************)
\* The maximum number of async world generation tasks (queue.rs).
QUEUE_MAX_TASKS == 2

Num(v) == [kind |-> "num", v |-> v]
NEG_INFINITY == [kind |-> "neginf", v |-> 0]
NAN == [kind |-> "nan", v |-> 0]

\* f32::max: a NaN argument is ignored.
f32_max(a, b) ==
    IF a.kind = "nan" THEN b
    ELSE IF b.kind = "nan" THEN a
    ELSE IF a.kind = "neginf" THEN b
    ELSE IF b.kind = "neginf" THEN a
    ELSE IF a.v >= b.v THEN a ELSE b

\* a < b in the total order of OrderedFloat<f32>, where NaN is the greatest.
OrderedLess(a, b) ==
    IF a.kind = "nan" THEN FALSE
    ELSE IF b.kind = "nan" THEN TRUE
    ELSE IF b.kind = "neginf" THEN FALSE
    ELSE IF a.kind = "neginf" THEN TRUE
    ELSE a.v < b.v

\* An entity with the worldgen ChunkAnchor::new(world, radius, ..) and a
\* Transform.
QueueAnchorAt(world, radius, translation) ==
    [world        |-> world,
     radius       |-> radius,
     weighted_dir |-> <<0, 0, 0>>,
     translation  |-> translation]

\* ChunkAnchor::get_priority of crates/bones3_worldgen/src/anchor.rs.
\* Vec3::normalize of the zero vector is NaN on every axis.
anchor_get_priority(anchor, pos, target) ==
    LET distance == Distance(target, pos)
    IN IF distance > anchor.radius THEN NEG_INFINITY
       ELSE IF target = pos THEN NAN
       ELSE Num(-distance
                  + Dot(normalize_or_zero(VSub(target, pos)), anchor.weighted_dir))

\* The loop over the anchors in the closure of push_chunk_async_queue.
RECURSIVE PendingChunkPriority(_, _, _, _)
PendingChunkPriority(as, chunk_coords, k, priority) ==
    IF k > Len(as) THEN priority
    ELSE LET pos == ShrV(as[k].translation, 4)
             anchor_priority == anchor_get_priority(as[k], pos, chunk_coords)
         IN PendingChunkPriority(as, chunk_coords, k + 1,
                                 f32_max(priority, anchor_priority))

QueuePriority(as, es, i) ==
    PendingChunkPriority(as, es[i].chunk_coords, 1, NEG_INFINITY)

\* The pending_tasks query.
pending_tasks(es) == {i \in 1..Len(es) : es[i].alive /\ es[i].pending}

\* Every ascending order of S by priority; equal priorities in any order.
RECURSIVE Ascending(_, _, _)
Ascending(as, es, S) ==
    IF S = {} THEN {<<>>}
    ELSE UNION {{<<m>> \o t : t \in Ascending(as, es, S \ {m})} :
                m \in {x \in S : \A y \in S :
                          ~OrderedLess(QueuePriority(as, es, y),
                                       QueuePriority(as, es, x))}}

\* Itertools::k_smallest(k): the possible results.
k_smallest(as, es, S, k) == {Take(s, k) : s \in Ascending(as, es, S)}

\* push_chunk_async_queue of queue.rs: the command lists it can queue.
queue_push_chunk_async_queue(as, es) ==
    LET slots == QUEUE_MAX_TASKS - Cardinality(active_tasks(es))
    IN IF slots <= 0 THEN {<<>>}
       ELSE {[k \in 1..Len(s) |->
                 IF es[s[k]].world_id \in GeneratorWorlds
                 THEN EntityCmd("start_task", s[k])
                 ELSE EntityCmd("insert_default_storage", s[k])] :
             s \in k_smallest(as, es, pending_tasks(es), slots)}

\* VoxelCommands::find_chunk of src/src/query/commands.rs.
find_chunk(es, ptrs, world_id, chunk_coords, ignore_unavailable) ==
    IF world_id \notin DOMAIN ptrs THEN Err
    ELSE IF chunk_coords \notin DOMAIN ptrs[world_id] THEN Err
    ELSE IF ~ignore_unavailable /\ ~es[ptrs[world_id][chunk_coords]].alive THEN Err
    ELSE Ok(ptrs[world_id][chunk_coords])

\* VoxelCommands::despawn_chunk of src/src/query/commands.rs: the pointer is
\* cleared at once, the entity is despawned when the commands are applied.
despawn_chunk(es, ptrs, world_id, chunk_coords) ==
    LET r == find_chunk(es, ptrs, world_id, chunk_coords, TRUE)
    IN IF r = Err THEN [ret |-> Err, cmds |-> <<>>, pointers |-> ptrs]
       ELSE [ret |-> Ok(0),
             cmds |-> <<EntityCmd("despawn_recursive", r.val)>>,
             pointers |-> [ptrs EXCEPT ![world_id] = Del(@, chunk_coords)]]

\* finish_chunk_loading of queue.rs: the commands it queues, and whether the
\* unwrap of a find_chunk result panicked.
queue_finish_chunk_loading(es, ptrs) ==
    LET ids == SelectSeq(Ids(es), LAMBDA i : es[i].alive /\ es[i].task = "done")
        found == [k \in 1..Len(ids) |->
                     find_chunk(es, ptrs, es[ids[k]].world_id,
                                es[ids[k]].chunk_coords, FALSE)]
        bad == {k \in 1..Len(ids) : found[k] = Err}
        n == IF bad = {} THEN Len(ids) ELSE (CHOOSE k \in bad : \A j \in bad : k <= j) - 1
    IN [cmds |-> [k \in 1..n |-> EntityCmd("finish_task", found[k].val)],
        panicked |-> bad # {}]

\* The anchors of a run: one anchor; two anchors at the two ends.
QueueAnchorSets ==
    { << QueueAnchorAt(1, 2, <<0, 0, 0>>) >>,
      << QueueAnchorAt(1, 1, <<5, 0, 0>>),
         QueueAnchorAt(1, 1, <<16 * QueueSpan, 0, 0>>) >> }

\* Chunk x of the run: the last one belongs to the world without generator.
QueueChunk(x, state) ==
    [ChunkEntity(IF x = QueueSpan THEN 2 ELSE 1, <<x, 0, 0>>) EXCEPT
        !.pending = (state = "pending"),
        !.task = IF state = "generating" THEN "running" ELSE "none",
        !.storage = (state = "loaded")]

QueueStates ==
    {f \in [0..QueueSpan -> {"pending", "generating", "loaded"}] :
        /\ Cardinality({x \in 0..QueueSpan : f[x] = "generating"}) <= QUEUE_MAX_TASKS
        /\ f[QueueSpan] # "generating"}

QueueSystems == {"push_chunk_async_queue", "finish_chunk_loading"}

InitQueue ==
    /\ anchors \in QueueAnchorSets
    /\ \E f \in QueueStates :
          /\ ents = [i \in 1..(QueueSpan + 1) |-> QueueChunk(i - 1, f[i - 1])]
          /\ pointers = [w \in WorldIds |->
                [c \in {<<x, 0, 0>> : x \in {y \in 0..QueueSpan :
                            (IF y = QueueSpan THEN 2 ELSE 1) = w}} |-> c[1] + 1]]
    /\ cmds = <<>>
    /\ ran = {}
    /\ stage = "Queue"
    /\ picked = NotPicked
    /\ IdleStorage /\ IdleCoords /\ IdleRegion /\ IdleIter /\ IdleLoad

QueuePush ==
    /\ Runs("Queue", "push_chunk_async_queue")
    /\ \E cs \in queue_push_chunk_async_queue(anchors, ents) :
          /\ cmds' = cmds \o cs
          /\ picked' = [called  |-> TRUE,
                        g       |-> Cardinality(active_tasks(ents)),
                        chosen  |-> {cs[k].e : k \in 1..Len(cs)},
                        pending |-> pending_tasks(ents)]
    /\ UNCHANGED <<ents, pointers, anchors>>
    /\ OtherThanSched

QueueFinish ==
    /\ stage = "Queue"
    /\ "finish_chunk_loading" \notin ran
    /\ ran' = ran \cup {"finish_chunk_loading"}
    /\ LET r == queue_finish_chunk_loading(ents, pointers)
       IN /\ cmds' = cmds \o r.cmds
          /\ stage' = IF r.panicked THEN "panicked" ELSE stage
    /\ UNCHANGED <<ents, pointers, anchors, picked>>
    /\ OtherThanSched

QueueTaskCompletes ==
    /\ stage = "Queue"
    /\ \E i \in 1..Len(ents) :
          /\ ents[i].alive /\ ents[i].task = "running"
          /\ ents' = [ents EXCEPT ![i].task = "done"]
    /\ UNCHANGED <<pointers, anchors, cmds, ran, stage, picked>>
    /\ OtherThanSched

QueueFlush == ApplyBuffers("Queue", QueueSystems, "Queue")

NextQueue == QueuePush \/ QueueFinish \/ QueueTaskCompletes \/ QueueFlush

SpecQueue == InitQueue /\ [][NextQueue]_vars

\* C10: one run of push_chunk_async_queue with g chunks generating moves at
\* most max(0, MAX_TASKS - g) chunks out of Pending, and no chunk it leaves
\* pending has a strictly higher priority than a chunk it chose.
C10_HighestPriorityFirst ==
    picked.called =>
        /\ Cardinality(picked.chosen)
               <= (IF QUEUE_MAX_TASKS - picked.g > 0
                   THEN QUEUE_MAX_TASKS - picked.g ELSE 0)
        /\ picked.chosen \subseteq picked.pending
        /\ \A c \in picked.chosen : \A u \in picked.pending \ picked.chosen :
              ~OrderedLess(QueuePriority(anchors, ents, c),
                           QueuePriority(anchors, ents, u))

(***************************************************************************)
(* SpecSpawn: VoxelWorldCommands::spawn_chunk and VoxelChunkCommands::     *)
(* despawn (crates/bones3_core/src/query/commands.rs) called by the        *)
(* systems of a frame on two worlds, and the command flush that ends the   *)
(* frame.  `picked` records the last call and what it returned.            *)
(***************************************************************************)
\* The chunk coordinates the systems use.
SpawnCoords == {<<0, 0, 0>>, <<1, 0, 0>>}

\* spawn_chunk without the get_chunk_id check.
spawn_chunkUnchecked(es, ptrs, world_id, chunk_coords) ==
    [ret |-> Ok(0), cmds |-> <<Cmd("spawn", 0, world_id, chunk_coords)>>]

\* VoxelWorldCommands::spawn_chunk: what it returns and the commands it queues.
spawn_chunk(es, ptrs, world_id, chunk_coords) ==
    IF get_chunk_id(es, ptrs, world_id, chunk_coords) # None
    THEN [ret |-> Err, cmds |-> <<>>]
    ELSE [ret |-> Ok(0), cmds |-> <<Cmd("spawn", 0, world_id, chunk_coords)>>]

\* VoxelWorldCommands::get_chunk followed by VoxelChunkCommands::despawn.
despawn(es, ptrs, world_id, chunk_coords) ==
    LET chunk_id == get_chunk_id(es, ptrs, world_id, chunk_coords)
    IN IF chunk_id = None THEN [ret |-> Err, cmds |-> <<>>]
       ELSE [ret |-> Ok(0),
             cmds |-> <<Cmd("despawn", chunk_id[1], world_id, chunk_coords)>>]

SpawnCall(op, world_id, chunk_coords, ret) ==
    [op |-> op, world_id |-> world_id, chunk_coords |-> chunk_coords, ret |-> ret]

InitSpawn ==
    /\ ents = <<>>
    /\ pointers = [w \in WorldIds |-> Empty]
    /\ anchors = <<>>
    /\ cmds = <<>>
    /\ ran = {}
    /\ stage = "Spawn"
    /\ picked = SpawnCall("none", 0, <<0, 0, 0>>, Err)
    /\ IdleStorage /\ IdleCoords /\ IdleRegion /\ IdleIter /\ IdleLoad

\* The entities the queued spawn commands will create.
QueuedSpawns == Len(SelectSeq(cmds, LAMBDA c : c.op = "spawn"))

\* A system calls get_world(world_id).spawn_chunk(chunk_coords, ()).
SpawnChunk ==
    /\ stage = "Spawn"
    /\ \E world_id \in WorldIds, chunk_coords \in SpawnCoords :
          LET r == spawn_chunk(ents, pointers, world_id, chunk_coords)
          IN /\ r.cmds # <<>> => /\ Len(cmds) < MaxSpawnCalls
                                 /\ Len(ents) + QueuedSpawns < MaxChunkEntities
             /\ cmds' = cmds \o r.cmds
             /\ picked' = SpawnCall("spawn_chunk", world_id, chunk_coords, r.ret)
    /\ UNCHANGED <<ents, pointers, anchors, ran, stage>>
    /\ OtherThanSched

\* A system calls get_world(world_id).get_chunk(chunk_coords) and despawns
\* the chunk it gets.
DespawnChunk ==
    /\ stage = "Spawn"
    /\ \E world_id \in WorldIds, chunk_coords \in SpawnCoords :
          LET r == despawn(ents, pointers, world_id, chunk_coords)
          IN /\ r.cmds # <<>> => Len(cmds) < MaxSpawnCalls
             /\ cmds' = cmds \o r.cmds
             /\ picked' = SpawnCall("despawn", world_id, chunk_coords, r.ret)
    /\ UNCHANGED <<ents, pointers, anchors, ran, stage>>
    /\ OtherThanSched

\* The frame ends: the queued commands are applied in order.
SpawnFlush ==
    /\ stage = "Spawn"
    /\ cmds # <<>>
    /\ LET w == ApplyAll([ents |-> ents, pointers |-> pointers, panicked |-> FALSE],
                         cmds)
       IN /\ ents' = w.ents
          /\ pointers' = w.pointers
          /\ stage' = IF w.panicked THEN "panicked" ELSE "Spawn"
    /\ cmds' = <<>>
    /\ UNCHANGED <<anchors, ran, picked>>
    /\ OtherThanSched

NextSpawn == SpawnChunk \/ DespawnChunk \/ SpawnFlush

SpecSpawn == InitSpawn /\ [][NextSpawn]_vars

\* The coordinate is registered: its pointer names a chunk entity.
Registered(ptrs, w, c) == w \in DOMAIN ptrs /\ c \in DOMAIN ptrs[w]

\* The queued spawn commands for coordinate c of world w.
SpawnsQueuedAt(w, c) ==
    SelectSeq(cmds, LAMBDA x : x.op = "spawn" /\ x.world_id = w /\ x.chunk_coords = c)

\* While no flush has panicked, a registered coordinate names the one alive
\* chunk entity at it.
C12_RegisteredOnce ==
    stage = "Spawn" =>
        \A w \in WorldIds : \A c \in SpawnCoords :
            /\ Cardinality(ChunksAt(w, c)) <= 1
            /\ Registered(pointers, w, c) => ChunksAt(w, c) = {pointers[w][c]}
            /\ ChunksAt(w, c) # {} => Registered(pointers, w, c)

\* A spawn_chunk call on a coordinate whose chunk was registered by an
\* earlier flush returns ChunkAlreadyExists and queues nothing.
C12_OccupiedRefused ==
    (picked'.op = "spawn_chunk" /\ Len(cmds') >= Len(cmds)
            /\ (picked' # picked \/ cmds' # cmds))
        => (Registered(pointers, picked'.world_id, picked'.chunk_coords)
               => picked'.ret = Err /\ cmds' = cmds)

\* A flush of two spawn commands for one coordinate panics, and a coordinate
\* the flush registers names the first entity the flush spawned at it.
C12_DoubleSpawnPanics ==
    (stage = "Spawn" /\ cmds # <<>> /\ cmds' = <<>>)
        => \A w \in WorldIds : \A c \in SpawnCoords :
              /\ Len(SpawnsQueuedAt(w, c)) >= 2 => stage' = "panicked"
              /\ (Registered(pointers', w, c) /\ pointers'[w][c] > Len(ents))
                    => \A i \in (Len(ents) + 1)..Len(ents') :
                          (ents'[i].world_id = w /\ ents'[i].chunk_coords = c)
                              => pointers'[w][c] <= i

\* No step replaces the entity a registered coordinate names.
C12_PointerKept ==
    \A w \in WorldIds : \A c \in SpawnCoords :
        (Registered(pointers, w, c) /\ Registered(pointers', w, c))
            => pointers'[w][c] = pointers[w][c]

\* C12: spawn_chunk never lets two chunk entities be registered at one
\* coordinate of one world.  On a coordinate registered in an earlier frame
\* it returns ChunkAlreadyExists and queues nothing; when two calls for one
\* coordinate are made in the same frame, applying the queue panics and the
\* pointer is not overwritten.
C12_SpawnChunkExclusive ==
    /\ []C12_RegisteredOnce
    /\ [][C12_OccupiedRefused /\ C12_DoubleSpawnPanics /\ C12_PointerKept]_vars

\* C12's case: in one frame a spawn_chunk call on a chunk of an earlier frame
\* was refused and two calls for a free coordinate were queued; the flush
\* panicked with two entities at that coordinate, the pointer on the first.
C12_Witness ==
    /\ stage = "panicked"
    /\ picked.op = "spawn_chunk" /\ picked.ret = Err
    /\ \E w \in WorldIds : \E c \in SpawnCoords :
          /\ Cardinality(ChunksAt(w, c)) = 2
          /\ Registered(pointers, w, c)
          /\ \A i \in ChunksAt(w, c) : pointers[w][c] <= i

(***************************************************************************)
(* SpecQueueDespawn: SpecQueue with a system of the application that calls *)
(* VoxelCommands::despawn_chunk on chunks of the world while their         *)
(* generation tasks run.                                                   *)
(***************************************************************************)
\* A system calls despawn_chunk(world_id, chunk_coords), once per frame.
QueueDespawnChunk ==
    /\ stage = "Queue"
    /\ \A k \in DOMAIN cmds : cmds[k].op # "despawn_recursive"
    /\ \E world_id \in WorldIds, x \in 0..QueueSpan :
          LET r == despawn_chunk(ents, pointers, world_id, <<x, 0, 0>>)
          IN /\ r.ret # Err
             /\ cmds' = cmds \o r.cmds
             /\ pointers' = r.pointers
    /\ UNCHANGED <<ents, anchors, ran, stage, picked>>
    /\ OtherThanSched

NextQueueDespawn == NextQueue \/ QueueDespawnChunk

SpecQueueDespawn == InitQueue /\ [][NextQueueDespawn]_vars

\* C15: finish_chunk_loading polling a completed task whose chunk pointer
\* was removed (or whose world is gone) drops the result silently: the run
\* of finish_chunk_loading does not panic.
C15_MissingTargetDropped ==
    ~(stage = "panicked" /\ "finish_chunk_loading" \in ran)

(***************************************************************************)
(* SpecMove: the frame of SpecGen with one chunk anchor that the           *)
(* application moves.  Its Transform changes in the Update stage; the      *)
(* PostUpdate stage then sees the new position.                            *)
(***************************************************************************)
MovePositions == {<<0, 0, 0>>, <<16 * MoveSpan, 0, 0>>}

InitMove ==
    /\ anchors = << AnchorAt(1, <<1, 0, 0>>, <<0, 0, 0>>) >>
    /\ ents = <<>>
    /\ pointers = [w \in WorldIds |-> Empty]
    /\ cmds = <<>>
    /\ ran = {}
    /\ stage = "Update"
    /\ picked = NotPicked
    /\ IdleStorage /\ IdleCoords /\ IdleRegion /\ IdleIter /\ IdleLoad

\* A system of the application sets the Transform of an anchor, before the
\* systems of the plugin run.
AnchorMoves ==
    /\ stage = "Update"
    /\ ran = {}
    /\ Len(ents) < MaxMoveEntities
    /\ \E k \in DOMAIN anchors : \E t \in MovePositions :
          /\ t # anchors[k].translation
          /\ anchors' = [anchors EXCEPT ![k].translation = t]
    /\ UNCHANGED <<ents, pointers, cmds, ran, stage, picked>>
    /\ OtherThanSched

NextMove == NextGen \/ AnchorMoves

SpecMove == InitMove /\ [][NextMove]_vars

\* C16: a chunk that holds a LoadChunkTask leaves that state only by
\* finish_chunk_loading committing its result; no step despawns it or drops
\* its task while the generation is in flight.
C16_GeneratingRunsToCompletion ==
    [][\A i \in DOMAIN ents :
          (ents[i].alive /\ Phase(ents[i]) = "Generating")
              => /\ ents'[i].alive
                 /\ \/ Phase(ents'[i]) = "Generating"
                    \/ /\ Phase(ents'[i]) = "Loaded"
                       /\ ents[i].task = "done"
                       /\ stage = "Update" /\ stage' = "PostUpdate"]_vars

\* unload_chunks runs in this step; the entities it queues for despawning.
UnloadRuns == "unload_chunks" \notin ran /\ "unload_chunks" \in ran'
UnloadQueued ==
    {cmds'[k].e : k \in {j \in (Len(cmds) + 1)..Len(cmds') : cmds'[j].op = "despawn"}}

\* The alive chunks out of the range of every anchor of their world.
OutOfRange ==
    {i \in DOMAIN ents :
        ents[i].alive /\ ~InAnchorRange(ents[i].world_id, ents[i].chunk_coords)}

\* The flush of PostUpdate despawns the chunks queued by unload_chunks and
\* clears their pointers; no other step despawns a chunk.
C18_DespawnApplied ==
    /\ (stage = "PostUpdate" /\ stage' # "PostUpdate")
          => \A k \in DOMAIN cmds :
                cmds[k].op = "despawn"
                    => /\ ~ents'[cmds[k].e].alive
                       /\ cmds[k].chunk_coords \notin DOMAIN pointers'[cmds[k].world_id]
    /\ \A i \in DOMAIN ents :
          (ents[i].alive /\ ~ents'[i].alive)
              => /\ stage = "PostUpdate" /\ stage' # "PostUpdate"
                 /\ \E k \in DOMAIN cmds : cmds[k].op = "despawn" /\ cmds[k].e = i

\* C18 as stated: unload_chunks despawns a chunk if and only if no anchor
\* of its world has it in range at that tick.
C18_UnloadIffOutOfRange ==
    [][(UnloadRuns => UnloadQueued = OutOfRange) /\ C18_DespawnApplied]_vars

\* C18 with the chunks that have no ChunkAnchorRecipient yet set apart:
\* unload_chunks despawns a chunk that carries a ChunkAnchorRecipient if and
\* only if no anchor of its world has it in range at that tick, and it
\* despawns no chunk that has no ChunkAnchorRecipient yet, in range or not.
C18_UnloadIffOutOfRangeWithRecipient ==
    [][(UnloadRuns =>
            UnloadQueued = {i \in OutOfRange : ents[i].recipient # None})
       /\ C18_DespawnApplied]_vars

\* C18's case: the anchor has moved back and forth and unload_chunks has
\* just run; an earlier run despawned a chunk with a ChunkAnchorRecipient
\* that lay out of range, whose pointer is cleared, and this run queued
\* nothing for a chunk spawned in the last frame, still without
\* ChunkAnchorRecipient, that lies out of range as well.
C18_Witness ==
    /\ stage = "PostUpdate" /\ "unload_chunks" \in ran
    /\ \E i \in DOMAIN ents :
          /\ ~ents[i].alive /\ ents[i].recipient # None
          /\ ~Registered(pointers, ents[i].world_id, ents[i].chunk_coords)
    /\ \E i \in DOMAIN ents :
          /\ ents[i].alive /\ ents[i].recipient = None
          /\ ~InAnchorRange(ents[i].world_id, ents[i].chunk_coords)
          /\ \A k \in DOMAIN cmds : ~(cmds[k].op = "despawn" /\ cmds[k].e = i)

(***************************************************************************)
(* SpecLoad: load_chunks of src/anchor/systems.rs on one VoxelWorld, run   *)
(* once per frame, with the ChunkLoaderCache it keeps as a Local.  The     *)
(* application unloads chunks between the passes.  A Transform translation *)
(* is given in halves of a block, so that 2 * 17 stands for 17.0 and -1    *)
(* for -0.5.                                                               *)
(***************************************************************************)
\* `as i32` of an f32 given in halves: the fraction is cut off, toward zero.
as_i32(h) == IF h >= 0 THEN h \div 2 ELSE -((-h) \div 2)
\* Vec3::as_ivec3
as_ivec3(t) == <<as_i32(t[1]), as_i32(t[2]), as_i32(t[3])>>
\* transform.translation.as_ivec3() >> 4
anchor_center(translation) == ShrV(as_ivec3(translation), 4)

\* pos.as_vec3().length(), kept as its square.
LengthSquared(pos) == pos[1] * pos[1] + pos[2] * pos[2] + pos[3] * pos[3]

\* ChunkLoaderNode::new
ChunkLoaderNode_new(pos) ==
    [pos |-> pos, distance |-> LengthSquared(pos),
     priority |-> Num(LengthSquared(pos))]

\* The elements of a sequence.
Range(s) == {s[i] : i \in DOMAIN s}

\* ChunkLoaderCache::default: the nodes in the order of the Region iterator,
\* which RegionPoints gives in closed form: the k-th point CuboidIterator
\* yields is the point of index k (C8_IterOrder), x slowest and z fastest.
\* `unspecified` tells that a sort has left the order of `list` open, as far
\* as `SortFirst` says; `list` then holds the nodes in the order before it.
RegionPoints(r) ==
    [k \in 1..count(r) |->
        <<r.pos[1] + ((k - 1) \div (r.size[2] * r.size[3])),
          r.pos[2] + (((k - 1) \div r.size[3]) % r.size[2]),
          r.pos[3] + ((k - 1) % r.size[3])>>]

ChunkLoaderCache_default ==
    LET pts == RegionPoints(
                   from_points(<<-LoadR, -LoadR, -LoadR>>, <<LoadR, LoadR, LoadR>>))
    IN [list        |-> [i \in DOMAIN pts |-> ChunkLoaderNode_new(pts[i])],
        unspecified |-> FALSE]

\* ChunkLoaderCache::update_weighted_dir for weighted_dir = Vec3::ZERO, the
\* only value load_chunks passes: distance - normalize(pos) . ZERO, which is
\* the distance for every offset but (0, 0, 0), where normalize() is 0/0, NaN.
\* The list is then sorted; a list of one node stays as it is.
update_weighted_dir(offs) ==
    [list        |-> [i \in DOMAIN offs.list |->
                         [offs.list[i] EXCEPT !.priority =
                             IF offs.list[i].pos = <<0, 0, 0>>
                             THEN NAN ELSE Num(offs.list[i].distance)]],
     unspecified |-> offs.unspecified \/ Len(offs.list) > 1]

\* partial_cmp(..).unwrap_or(Equal) is a total order on the nodes: no
\* priority is NaN.
TotalOrder(offs) == \A n \in Range(offs.list) : n.priority # NAN

\* The nodes of S, a set of nodes of the list, that the list can hold before
\* all other nodes of S.  Without a sort it is the first of them in the
\* list.  After sort_unstable_by with a total order these are the nodes of
\* the least priority; otherwise the order of the elements is unspecified.
SortFirst(offs, S) ==
    IF ~offs.unspecified
    THEN {offs.list[i] : i \in {j \in DOMAIN offs.list :
             /\ offs.list[j] \in S
             /\ \A h \in 1..(j - 1) : offs.list[h] \notin S}}
    ELSE IF TotalOrder(offs)
    THEN {n \in S : \A o \in S : n.priority.v <= o.priority.v}
    ELSE S

\* ChunkLoaderCache::iter: the nodes within the radius; the step from
\* node.pos to node.pos + center is made where the nodes are used.
cache_iter(offs, radius) ==
    SelectSeq(offs.list, LAMBDA n : n.distance <= radius * radius)

\* VoxelWorld::is_loaded
is_loaded(secs, chunk_coords) == get_chunk_load_state(secs, chunk_coords) = "Loaded"

\* The entities that hold a VoxelWorld; the model has one world, `sectors`.
LoadWorlds == {1}

ChunkLoadEvent(world, chunk_coords) == [world |-> world, chunk_coords |-> chunk_coords]

\* An entity with a Transform and ChunkAnchor { world, radius, .. }.
LoadAnchor(world, radius, translation) ==
    [world |-> world, radius |-> radius, translation |-> translation]

\* load_chunks from anchor k on: the outcomes of the pass, one for each order
\* the sort can leave.  sort_unstable_by may also panic when the comparison
\* is no total order.
RECURSIVE load_chunks(_, _, _, _, _)
load_chunks(as, secs, offs, evs, k) ==
    IF k > Len(as)
    THEN {[w |-> secs, offsets |-> offs, events |-> evs, panicked |-> FALSE]}
    ELSE LET anchor == as[k]
         IN IF anchor.world = None THEN load_chunks(as, secs, offs, evs, k + 1)
            ELSE IF anchor.world[1] \notin LoadWorlds
            THEN {[w |-> secs, offsets |-> offs, events |-> evs, panicked |-> TRUE]}
            ELSE LET center == anchor_center(anchor.translation)
                     sorted == update_weighted_dir(offs)
                     S == {n \in Range(cache_iter(sorted, anchor.radius)) :
                              ~is_loaded(secs, VAdd(n.pos, center))}
                     loads ==
                         IF S = {} THEN load_chunks(as, secs, sorted, evs, k + 1)
                         ELSE UNION {
                             LET chunk_coords == VAdd(n.pos, center)
                                 r == init_chunk(secs, chunk_coords)
                             IN IF r.ret.kind # "ok"
                                THEN {[w |-> r.w, offsets |-> sorted, events |-> evs,
                                       panicked |-> TRUE]}
                                ELSE load_chunks(as, r.w, sorted,
                                        Append(evs, ChunkLoadEvent(anchor.world[1], chunk_coords)),
                                        k + 1) : n \in SortFirst(sorted, S)}
                 IN IF TotalOrder(sorted) \/ ~sorted.unspecified THEN loads
                    ELSE loads \cup {[w |-> secs, offsets |-> sorted, events |-> evs,
                                      panicked |-> TRUE]}

\* The anchors of a run: the anchor of the test load_chunks; two anchors of
\* one world side by side; an anchor without world before one with; an
\* anchor whose world entity holds no VoxelWorld.
LoadAnchorSets ==
    { << LoadAnchor(Some(1), 2, <<2 * 17, 2 * (-2), 2 * 3>>) >>,
      << LoadAnchor(Some(1), 1, <<0, 0, 0>>),
         LoadAnchor(Some(1), 0, <<2 * 16, 0, 0>>) >>,
      << LoadAnchor(None, 1, <<0, 0, 0>>),
         LoadAnchor(Some(1), 1, <<-1, 0, 0>>) >>,
      << LoadAnchor(Some(1), 0, <<0, 0, 0>>),
         LoadAnchor(Some(2), 1, <<0, 0, 0>>) >> }

InitLoad ==
    /\ sectors = <<>>
    /\ shadow = [q \in TestPoints |-> Default]
    /\ lastOp = Call("none", <<0, 0, 0>>, 0, Ok(0), NoList)
    /\ anchors \in LoadAnchorSets
    /\ offsets = ChunkLoaderCache_default
    /\ chunk_load_ev = <<>>
    /\ passes = 0
    /\ stage = "Load"
    /\ ents = <<>> /\ pointers = <<>> /\ cmds = <<>> /\ ran = {}
    /\ picked = NotPicked
    /\ IdleCoords /\ IdleRegion /\ IdleIter

OtherThanLoad ==
    UNCHANGED <<shadow, lastOp, coordVars, regionVars, iterVars,
                ents, pointers, anchors, cmds, ran, picked>>

\* The coordinates of the chunks the world holds.
LoadedChunks(secs) ==
    UNION {{secs[i].chunks[j].chunk_coords : j \in DOMAIN secs[i].chunks} :
              i \in DOMAIN secs}

\* One run of the system load_chunks.
LoadChunks ==
    /\ stage = "Load"
    /\ passes < MaxLoadPasses
    /\ \E o \in load_chunks(anchors, sectors, offsets, <<>>, 1) :
          /\ sectors' = o.w
          /\ offsets' = o.offsets
          /\ chunk_load_ev' = o.events
          /\ stage' = IF o.panicked THEN "panicked" ELSE "Load"
    /\ passes' = passes + 1
    /\ OtherThanLoad

\* The application unloads a chunk between two passes.
LoadUnloadChunk ==
    /\ stage = "Load"
    /\ passes < MaxLoadPasses
    /\ \E c \in LoadedChunks(sectors) :
          /\ unload_chunk(sectors, c).ret.kind = "ok"
          /\ sectors' = unload_chunk(sectors, c).w
    /\ UNCHANGED <<offsets, chunk_load_ev, passes, stage>>
    /\ OtherThanLoad

NextLoad == LoadChunks \/ LoadUnloadChunk

SpecLoad == InitLoad /\ [][NextLoad]_vars

\* This step is a pass of load_chunks that ran to its end.
LoadPass == passes' = passes + 1 /\ stage' = "Load"

\* The anchors load_chunks acts for, and the chunks in the range of one.
LoadValid ==
    {k \in DOMAIN anchors :
        anchors[k].world # None /\ anchors[k].world[1] \in LoadWorlds}
LoadRange(k) ==
    {VAdd(n.pos, anchor_center(anchors[k].translation)) :
        n \in Range(cache_iter(ChunkLoaderCache_default, anchors[k].radius))}
LoadDistance(k, c) == LengthSquared(VSub(c, anchor_center(anchors[k].translation)))

\* The pass initialises at most one chunk per anchor and sends exactly one
\* ChunkLoadEvent (world, chunk coordinate) for each chunk it initialises,
\* none for a chunk that was loaded.
C19_OneEventPerLoad ==
    /\ Len(chunk_load_ev') <= Cardinality(LoadValid)
    /\ \A j \in DOMAIN chunk_load_ev' :
          /\ chunk_load_ev'[j].world \in LoadWorlds
          /\ ~is_loaded(sectors, chunk_load_ev'[j].chunk_coords)
          /\ is_loaded(sectors', chunk_load_ev'[j].chunk_coords)
          /\ \A i \in 1..(j - 1) :
                chunk_load_ev'[i].chunk_coords # chunk_load_ev'[j].chunk_coords
    /\ LoadedChunks(sectors') \ LoadedChunks(sectors)
          \subseteq {chunk_load_ev'[j].chunk_coords : j \in DOMAIN chunk_load_ev'}
    /\ \A c \in LoadedChunks(sectors) : is_loaded(sectors, c) = is_loaded(sectors', c)

\* Each chunk the pass initialises is, for some anchor, the nearest chunk in
\* its range that was not loaded when the anchor's turn came; on an empty
\* world the first one is the chunk that holds the first anchor.
C19_NearestNotLoaded ==
    /\ \A j \in DOMAIN chunk_load_ev' :
          \E k \in LoadValid :
              /\ chunk_load_ev'[j].chunk_coords \in LoadRange(k)
              /\ \A c \in LoadRange(k) :
                    (/\ ~is_loaded(sectors, c)
                     /\ \A i \in 1..(j - 1) : chunk_load_ev'[i].chunk_coords # c)
                        => LoadDistance(k, chunk_load_ev'[j].chunk_coords)
                               <= LoadDistance(k, c)
    /\ (sectors = <<>> /\ chunk_load_ev' # <<>>)
          => \E k \in LoadValid :
                /\ \A i \in LoadValid : k <= i
                /\ chunk_load_ev'[1].chunk_coords = anchor_center(anchors[k].translation)

\* C19: one pass of load_chunks initialises at most one chunk per anchor,
\* the not-yet-loaded chunk nearest to the anchor within its radius, and
\* sends exactly one ChunkLoadEvent for each chunk it initialises and none
\* for chunks already loaded; on an empty world the first chunk loaded is
\* the chunk that holds the anchor (the anchor at (17, -2, 3) with radius 2
\* gives chunk (1, -1, 0)).
C19_LoadsNearestOnePerAnchor ==
    [][LoadPass => (C19_OneEventPerLoad /\ C19_NearestNotLoaded)]_vars

(***************************************************************************)
(* SpecCentre: the chunk coordinate an anchor position is turned into,     *)
(* translation.as_ivec3() >> 4, in load_chunks, load_chunks_async and      *)
(* update_coords alike.  Positions are given in halves of a block.         *)
(***************************************************************************)
CentrePoints ==
    {<<x, y, 2 * 3>> : x \in (-MaxHalf)..MaxHalf, y \in {2 * (-2), -1, 2 * 17}}

InitCentre ==
    /\ coord \in {[called |-> FALSE, translation |-> t] : t \in CentrePoints}
    /\ IdleStorage /\ IdleRegion /\ IdleIter /\ IdleSched /\ IdleLoad

AnchorCenter ==
    /\ ~coord.called
    /\ coord' = [called      |-> TRUE,
                 translation |-> coord.translation,
                 center      |-> anchor_center(coord.translation)]
    /\ UNCHANGED <<storageVars, regionVars, iterVars, schedVars, loadVars>>

NextCentre == AnchorCenter

SpecCentre == InitCentre /\ [][NextCentre]_vars

\* C20: for every anchor position, negative and fractional components
\* included, the chunk coordinate used as the anchor's centre is
\* floor(position / 16) on each axis (y = -0.5 gives chunk -1, y = -2 gives
\* chunk -1, x = 17 gives chunk 1).  A position of h halves of a block is
\* h / 32 chunks.
C20_CentreIsFloor ==
    coord.called
        => \A i \in 1..3 : coord.center[i] = coord.translation[i] \div 32

(***************************************************************************)
(* SpecPriority: ChunkAnchor::get_priority of the world generator          *)
(* (crates/bones3_worldgen/src/anchor.rs) and of bones3_core, for an       *)
(* anchor at the chunk-space origin with zero bias.  Two targets are drawn *)
(* so that their priorities can be compared; the targets lie at a whole    *)
(* distance from the anchor, as (3, 4, 0) does.                            *)
(***************************************************************************)
PriorityRadii == {0, 3, 4}

PriorityTargets ==
    {t \in {<<x, y, z>> : x \in (-PrioritySpan)..PrioritySpan,
                          y \in {-4, 0, 4}, z \in {0, 3}} :
        \E r \in 0..(3 * PrioritySpan) : r * r = Dot(t, t)}

InitPriority ==
    /\ coord \in {[called |-> FALSE, radius |-> r, a |-> ta, b |-> tb] :
                     r \in PriorityRadii, ta \in PriorityTargets,
                     tb \in PriorityTargets}
    /\ IdleStorage /\ IdleRegion /\ IdleIter /\ IdleSched /\ IdleLoad

\* The result of both get_priority functions for target t and radius r.
Priorities(r, t) ==
    [worldgen |-> anchor_get_priority(QueueAnchorAt(1, r, <<0, 0, 0>>),
                                      <<0, 0, 0>>, t),
     core     |-> get_priority([AnchorAt(1, <<r, r, r>>, <<0, 0, 0>>)
                                   EXCEPT !.coords = Some(<<0, 0, 0>>)], t)]

GetPriority ==
    /\ ~coord.called
    /\ coord' = [called |-> TRUE, radius |-> coord.radius,
                 a |-> coord.a, b |-> coord.b,
                 pa |-> Priorities(coord.radius, coord.a),
                 pb |-> Priorities(coord.radius, coord.b)]
    /\ UNCHANGED <<storageVars, regionVars, iterVars, schedVars, loadVars>>

NextPriority == GetPriority

SpecPriority == InitPriority /\ [][NextPriority]_vars

\* Target t lies within the Euclidean distance r of the origin.
Reachable(r, t) == Dot(t, t) <= r * r

\* C21 for the world generator's get_priority(pos, target) -> f32, whose
\* sentinel is negative infinity.
C21_Worldgen ==
    /\ Reachable(coord.radius, coord.a) <=> coord.pa.worldgen.kind = "num"
    /\ ~Reachable(coord.radius, coord.a) <=> coord.pa.worldgen = NEG_INFINITY
    /\ (/\ Reachable(coord.radius, coord.a) /\ Reachable(coord.radius, coord.b)
        /\ Dot(coord.a, coord.a) < Dot(coord.b, coord.b))
          => /\ coord.pa.worldgen.kind = "num" /\ coord.pb.worldgen.kind = "num"
             /\ coord.pa.worldgen.v > coord.pb.worldgen.v

\* C21 for bones3_core's get_priority(target) -> Option<f32>, whose sentinel
\* is None.
C21_Core ==
    /\ Reachable(coord.radius, coord.a) <=> coord.pa.core # None
    /\ (/\ Reachable(coord.radius, coord.a) /\ Reachable(coord.radius, coord.b)
        /\ Dot(coord.a, coord.a) < Dot(coord.b, coord.b))
          => /\ coord.pa.core # None /\ coord.pb.core # None
             /\ coord.pa.core[1] > coord.pb.core[1]

\* C21: with zero bias and load radius r, get_priority gives every target
\* within the Euclidean distance r of the centre, the centre itself
\* included, a number that is strictly decreasing in the distance, and gives
\* every target farther than r the unreachable sentinel.
C21_PriorityDecreasesWithinRadius ==
    coord.called => (C21_Worldgen /\ C21_Core)

(***************************************************************************)
(* SpecRecipients: update_coords and update_chunk_priorities of            *)
(* bones3_core on chunks that exist already, some without                  *)
(* ChunkAnchorRecipient, some with a priority left from an earlier frame.  *)
(***************************************************************************)
\* Two anchors of one world whose ranges overlap; the same with the second
\* anchor weighted; anchors of two worlds over the same coordinates; an
\* anchor of a world that does not exist.
RecipientAnchorSets ==
    { << AnchorAt(1, <<1, 0, 0>>, <<0, 0, 0>>),
         AnchorAt(1, <<2, 0, 0>>, <<16 * RecipientSpan, 0, 0>>) >>,
      << AnchorAt(1, <<2, 0, 0>>, <<0, 0, 0>>),
         [AnchorAt(1, <<2, 0, 0>>, <<16 * RecipientSpan, 0, 0>>)
             EXCEPT !.weight = 2] >>,
      << AnchorAt(1, <<1, 0, 0>>, <<0, 0, 0>>),
         AnchorAt(2, <<0, 0, 0>>, <<16 * RecipientSpan, 0, 0>>) >>,
      << AnchorAt(3, <<2, 0, 0>>, <<0, 0, 0>>),
         AnchorAt(2, <<0, 0, 0>>, <<17, 0, 0>>) >> }

\* The ChunkAnchorRecipient of a chunk before the frame: none, one without
\* priority, one with the priority of an earlier frame.
RecipientStates == {None, Some(None), Some(Some(-7))}

\* Chunk i of the run: the chunks of world 1 come first.
RecipientChunk(i, recipient) ==
    [ChunkEntity(IF i <= RecipientSpan + 1 THEN 1 ELSE 2,
                 <<(i - 1) % (RecipientSpan + 1), 0, 0>>)
        EXCEPT !.recipient = recipient]

InitRecipients ==
    /\ anchors \in RecipientAnchorSets
    /\ \E f \in [1..(2 * (RecipientSpan + 1)) -> RecipientStates] :
          ents = [i \in 1..(2 * (RecipientSpan + 1)) |-> RecipientChunk(i, f[i])]
    /\ pointers = [w \in WorldIds |-> Empty]
    /\ cmds = <<>>
    /\ ran = {}
    /\ stage = "PostUpdate"
    /\ picked = NotPicked
    /\ IdleStorage /\ IdleCoords /\ IdleRegion /\ IdleIter /\ IdleLoad

NextRecipients == UpdateCoords \/ UpdateChunkPriorities

SpecRecipients == InitRecipients /\ [][NextRecipients]_vars

\* The priorities the anchors of chunk i's own world give it.
OwnWorldPriorities(i) ==
    {get_priority(anchors[k], ents[i].chunk_coords)[1] :
        k \in {j \in DOMAIN anchors :
                  /\ anchors[j].world_id = ents[i].world_id
                  /\ get_priority(anchors[j], ents[i].chunk_coords) # None}}

\* C22: after update_chunk_priorities has run, the priority of each chunk's
\* ChunkAnchorRecipient is the maximum of get_priority over the anchors of
\* the chunk's own world that have it in range, and None exactly when there
\* is no such anchor; anchors of another world have no influence.
C22_PriorityIsMaxOverOwnWorld ==
    [][("update_chunk_priorities" \notin ran /\ "update_chunk_priorities" \in ran')
         => \A i \in DOMAIN ents :
               (ents[i].alive /\ ents[i].recipient # None)
                   => /\ ents'[i].recipient # None
                      /\ IF OwnWorldPriorities(i) = {}
                         THEN ents'[i].recipient[1] = None
                         ELSE /\ ents'[i].recipient[1] # None
                              /\ ents'[i].recipient[1][1] \in OwnWorldPriorities(i)
                              /\ \A v \in OwnWorldPriorities(i) :
                                    ents'[i].recipient[1][1] >= v]_vars

\* C22's case: update_chunk_priorities has run on a chunk that two anchors
\* of its world have in range with different priorities, on a chunk that
\* only an anchor of the other world has in range, and the chunk held a
\* priority from an earlier frame.
C22_Witness ==
    /\ "update_chunk_priorities" \in ran
    /\ \E i \in DOMAIN ents :
          /\ ents[i].recipient # None
          /\ Cardinality(OwnWorldPriorities(i)) = 2
          /\ ents[i].recipient[1] # None
    /\ \E i \in DOMAIN ents :
          /\ ents[i].recipient = Some(None)
          /\ \E k \in DOMAIN anchors :
                /\ anchors[k].world_id # ents[i].world_id
                /\ get_priority(anchors[k], ents[i].chunk_coords) # None

(***************************************************************************)
(* SpecAnchor: the radii of the world generator's ChunkAnchor              *)
(* (crates/bones3_worldgen/src/anchor.rs; src/src/world_gen/anchor.rs has  *)
(* the same new, set_radius and set_max_radius).  `picked` holds the last  *)
(* call and its arguments.                                                 *)
(***************************************************************************)
\* ChunkAnchor::new
ChunkAnchor_new(world, radius, max_radius, force_radius) ==
    [world        |-> world,
     radius       |-> radius,
     max_radius   |-> IF max_radius < radius THEN radius ELSE max_radius,
     force_radius |-> force_radius,
     weighted_dir |-> <<0, 0, 0>>]

\* ChunkAnchor::set_radius
set_radius(anchor, radius) ==
    [anchor EXCEPT !.radius = radius,
                   !.max_radius = IF @ < radius THEN radius ELSE @]

\* A set_max_radius that stores the requested value as it is.
set_max_radiusUnclamped(anchor, max_radius) ==
    [anchor EXCEPT !.max_radius = max_radius]

\* ChunkAnchor::set_max_radius
set_max_radius(anchor, max_radius) ==
    IF max_radius < anchor.radius
    THEN [anchor EXCEPT !.max_radius = anchor.radius]
    ELSE [anchor EXCEPT !.max_radius = max_radius]

AnchorCall(op, radius, max_radius) ==
    [op |-> op, radius |-> radius, max_radius |-> max_radius]

InitAnchor ==
    /\ \E r \in 0..MaxRadius, mr \in 0..(MaxRadius + 1) :
          /\ anchors = << ChunkAnchor_new(1, r, mr, -1) >>
          /\ picked = AnchorCall("new", r, mr)
    /\ ents = <<>> /\ pointers = <<>> /\ cmds = <<>> /\ ran = {}
    /\ stage = "Anchor"
    /\ IdleStorage /\ IdleCoords /\ IdleRegion /\ IdleIter /\ IdleLoad

SetRadius ==
    /\ stage = "Anchor"
    /\ \E r \in 0..MaxRadius :
          /\ anchors' = << set_radius(anchors[1], r) >>
          /\ picked' = AnchorCall("set_radius", r, 0)
    /\ UNCHANGED <<ents, pointers, cmds, ran, stage>>
    /\ OtherThanSched

SetMaxRadius ==
    /\ stage = "Anchor"
    /\ \E mr \in 0..(MaxRadius + 1) :
          /\ anchors' = << set_max_radius(anchors[1], mr) >>
          /\ picked' = AnchorCall("set_max_radius", 0, mr)
    /\ UNCHANGED <<ents, pointers, cmds, ran, stage>>
    /\ OtherThanSched

NextAnchor == SetRadius \/ SetMaxRadius

SpecAnchor == InitAnchor /\ [][NextAnchor]_vars

\* get_max_radius() >= get_radius(), and new(..) clamps as the setters do.
C23_MaxAtLeastRadius ==
    /\ anchors[1].max_radius >= anchors[1].radius
    /\ picked.op = "new"
          => /\ anchors[1].radius = picked.radius
             /\ anchors[1].max_radius =
                    IF picked.max_radius >= picked.radius
                    THEN picked.max_radius ELSE picked.radius

\* What a call of set_radius or set_max_radius does to the two radii.
C23_Setters ==
    /\ picked'.op = "set_radius"
          => /\ anchors'[1].radius = picked'.radius
             /\ anchors'[1].max_radius =
                    IF anchors[1].max_radius < picked'.radius
                    THEN picked'.radius ELSE anchors[1].max_radius
    /\ picked'.op = "set_max_radius"
          => /\ anchors'[1].radius = anchors[1].radius
             /\ anchors'[1].max_radius =
                    IF picked'.max_radius >= anchors[1].radius
                    THEN picked'.max_radius ELSE anchors[1].radius

\* C23: after new(..) and after any sequence of set_radius and
\* set_max_radius calls, get_max_radius() >= get_radius(); set_radius raises
\* max_radius to the new radius when it would be smaller and leaves it
\* unchanged otherwise; set_max_radius stores max(requested, radius) and
\* leaves radius unchanged.
C23_MaxRadiusClamped == []C23_MaxAtLeastRadius /\ [][C23_Setters]_vars

\* C23's case: set_max_radius was called with a value below the radius, and
\* the memory radius is the load radius.
C23_Witness ==
    /\ picked.op = "set_max_radius"
    /\ picked.max_radius < anchors[1].radius
    /\ anchors[1].max_radius = anchors[1].radius

(***************************************************************************)
(* SpecCache: ChunkLoaderCache<R> of src/anchor/cache.rs with R = LoadR.   *)
(* The cache is built by default(), sorted by update_weighted_dir with the *)
(* zero bias load_chunks passes, and read through iter(radius, center).    *)
(* `coord` holds the call of iter, `yielded` what the iterator has given.  *)
(* While a sort has left the order open, iter is called with the radii     *)
(* CacheSortedRadii only, which keeps the orders to follow few.            *)
(***************************************************************************)
CacheCentres == {<<0, 0, 0>>, <<1, -1, 0>>}
CacheRadii == {0, 1, LoadR, LoadR + 1}
CacheSortedRadii == {0, 1}
NoIter == [called |-> FALSE, radius |-> 0, center |-> <<0, 0, 0>>]

InitCache ==
    /\ offsets = ChunkLoaderCache_default
    /\ coord = NoIter
    /\ yielded = <<>>
    /\ passes = 0
    /\ chunk_load_ev = <<>>
    /\ stage = "Cache"
    /\ ents = <<>> /\ pointers = <<>> /\ anchors = <<>> /\ cmds = <<>>
    /\ ran = {} /\ picked = NotPicked
    /\ IdleStorage /\ IdleRegion
    /\ iter = [min |-> <<0, 0, 0>>, max |-> <<0, 0, 0>>, next |-> <<>>]
    /\ lastNext = [calls |-> 0, ret |-> <<>>]

OtherThanCache ==
    UNCHANGED <<storageVars, regionVars, iter, lastNext, ents, pointers,
                anchors, cmds, ran, picked, chunk_load_ev>>

\* cache.update_weighted_dir(Vec3::ZERO).  The call needs the cache
\* exclusively, so no iterator lives across it.  A sort whose comparison is
\* not a total order leaves the order open and may panic.
CacheUpdateWeightedDir ==
    /\ stage = "Cache"
    /\ passes < MaxLoadPasses
    /\ offsets' = update_weighted_dir(offsets)
    /\ stage' \in IF TotalOrder(offsets') THEN {"Cache"} ELSE {"Cache", "panicked"}
    /\ passes' = passes + 1
    /\ coord' = NoIter
    /\ yielded' = <<>>
    /\ OtherThanCache

\* cache.iter(radius, center)
CacheIter ==
    /\ stage = "Cache"
    /\ \E radius \in IF offsets.unspecified THEN CacheSortedRadii ELSE CacheRadii,
          center \in CacheCentres :
          coord' = [called |-> TRUE, radius |-> radius, center |-> center]
    /\ yielded' = <<>>
    /\ UNCHANGED <<offsets, passes, stage>>
    /\ OtherThanCache

\* The nodes the iterator of `coord` has still to give.
CacheRemaining ==
    {n \in Range(cache_iter(offsets, coord.radius)) :
        VAdd(n.pos, coord.center) \notin Range(yielded)}

\* Iterator::next on the iterator of `coord`, while it has a node to give.
CacheNext ==
    /\ stage = "Cache"
    /\ coord.called
    /\ \E n \in SortFirst(offsets, CacheRemaining) :
          yielded' = Append(yielded, VAdd(n.pos, coord.center))
    /\ UNCHANGED <<offsets, passes, stage, coord>>
    /\ OtherThanCache

NextCache == CacheUpdateWeightedDir \/ CacheIter \/ CacheNext

SpecCache == InitCache /\ [][NextCache]_vars

\* The coordinates iter(radius, center) is to give: center + o for the
\* offsets o of the cube [-LoadR, LoadR]^3 of length at most radius.
CacheExpected ==
    {VAdd(<<x, y, z>>, coord.center) :
        <<x, y, z>> \in {o \in ((-LoadR)..LoadR) \X ((-LoadR)..LoadR) \X ((-LoadR)..LoadR) :
                            LengthSquared(o) <= coord.radius * coord.radius}}

\* iter gives coordinates of CacheExpected only, each once, and all of them
\* by the time it is exhausted.
C24_ExactlyOnce ==
    coord.called
        => /\ Range(yielded) \subseteq CacheExpected
           /\ \A i, j \in DOMAIN yielded : yielded[i] = yielded[j] => i = j
           /\ CacheRemaining = {} => Range(yielded) = CacheExpected

\* iter gives the coordinates nearest first.
C24_NearestFirst ==
    coord.called
        => \A i, j \in DOMAIN yielded :
              i < j => LengthSquared(VSub(yielded[i], coord.center))
                          <= LengthSquared(VSub(yielded[j], coord.center))

\* The offset list is sorted by priority: in the order the list has, or in
\* every order the sort can have left.
C24_ListSorted ==
    IF offsets.unspecified THEN TotalOrder(offsets)
    ELSE \A i, j \in DOMAIN offsets.list :
            i < j => /\ offsets.list[i].priority # NAN
                     /\ offsets.list[j].priority # NAN
                     /\ offsets.list[i].priority.v <= offsets.list[j].priority.v

\* C24: iter(radius, center) yields exactly the coordinates center + o for
\* the offsets o in [-R, R]^3 with Euclidean length <= radius, each once, in
\* non-decreasing priority order (nearest first with the zero bias); the
\* offset list is sorted by priority at every moment from construction on,
\* also before the first update_weighted_dir call; a radius above R only
\* gets offsets inside the cube of half-width R.
C24_IterSortedFromConstruction ==
    C24_ExactlyOnce /\ C24_NearestFirst /\ C24_ListSorted

(***************************************************************************)
(* Bulk reads and writes of VoxelWorld (src/src/storage/world.rs).  A      *)
(* slice is the container of block_region.rs: a region and one value per   *)
(* point of it, kept sparse as the blocks of a chunk are.                  *)
(***************************************************************************)
SECTOR == Region(<<0, 0, 0>>, <<256, 256, 256>>)

\* Region::shift
shift(r, amount) == Region(VAdd(r.pos, amount), r.size)

\* Region::intersects
intersects(a, b) ==
    LET size == VSub(VMin(RMax(a), RMax(b)), VMax(RMin(a), RMin(b)))
    IN size[1] >= 0 /\ size[2] >= 0 /\ size[3] >= 0

\* An intersection that leaves out the last layer of the overlap on each axis.
intersectionExclusive(a, b) ==
    LET min == VMax(RMin(a), RMin(b))
        size == VSub(VMin(RMax(a), RMax(b)), min)
    IN IF size[1] <= 0 \/ size[2] <= 0 \/ size[3] <= 0 THEN Err
       ELSE Ok(Region(min, size))

\* Region::intersection
intersection(a, b) ==
    LET min == VMax(RMin(a), RMin(b))
        size == VAddS(VSub(VMin(RMax(a), RMax(b)), min), 1)
    IN IF size[1] <= 0 \/ size[2] <= 0 \/ size[3] <= 0 THEN Err
       ELSE Ok(Region(min, size))

\* The points region.iter() yields.
Points(r) ==
    {<<x, y, z>> : x \in r.pos[1]..(r.pos[1] + r.size[1] - 1),
                   y \in r.pos[2]..(r.pos[2] + r.size[2] - 1),
                   z \in r.pos[3]..(r.pos[3] + r.size[3] - 1)}

\* The point of r whose point_to_index is i.
PointOfIndex(r, i) ==
    <<r.pos[1] + (i \div (r.size[2] * r.size[3])),
      r.pos[2] + ((i \div r.size[3]) % r.size[2]),
      r.pos[3] + (i % r.size[3])>>

\* The assignments blocks[index(b)] = data(b) on a dense array, one for
\* each point b of B, a set of points of the region r the array belongs to.
WriteBlocks(blocks, r, B, index(_), data(_)) ==
    LET keep == (DOMAIN blocks) \ {index(b) : b \in B}
        new == {index(b) : b \in {c \in B : data(c) # Default}}
    IN [i \in keep \cup new |->
           IF i \in keep THEN blocks[i] ELSE data(PointOfIndex(r, i))]

\* BlockRegion::new
BlockRegion_new(r) == [region |-> r, blocks |-> Empty]

\* BlockRegion::get_block
slice_get_block(slice, block_coords) ==
    LET index == point_to_index(slice.region, block_coords)
    IN IF index.kind # "ok" THEN Err ELSE Ok(ReadBlock(slice.blocks, index.val))

\* The chunk coordinates a block region overlaps.
region_chunks(r) == from_points(ShrV(RMin(r), 4), ShrV(RMax(r), 4))

\* The body of get_slice's loop for one sector: the slice after it, and
\* whether an unwrap() failed.
get_slice_sector(sector, r, slice) ==
    IF ~intersects(shift(SECTOR, ShlV(sector.sector_coords, 8)), r)
    THEN [slice |-> slice, panicked |-> FALSE]
    ELSE LET cr == intersection(shift(CHUNK, ShlV(sector.sector_coords, 4)),
                                region_chunks(r))
         IN IF cr.kind # "ok" THEN [slice |-> slice, panicked |-> TRUE]
            ELSE LET slots == {point_to_index(CHUNK, And15V(c)) : c \in Points(cr.val)}
                     some == {s.val : s \in {t \in slots : t.kind = "ok"}}
                                \cap DOMAIN sector.chunks
                     br(ci) == intersection(
                                   shift(CHUNK, ShlV(sector.chunks[ci].chunk_coords, 4)), r)
                     read == {c \in some : br(c).kind = "ok"}
                     B == UNION {Points(br(ci).val) : ci \in read}
                     index(b) == point_to_index(r, b).val
                     data(b) ==
                         LET ci == CHOOSE c \in read : contains(br(c).val, b)
                         IN ReadBlock(sector.chunks[ci].blocks,
                                      point_to_index(CHUNK, CellOf(b)).val)
                 IN IF \/ \E s \in slots : s.kind # "ok"
                       \/ \E ci \in some : br(ci).kind # "ok"
                       \/ \E b \in B : point_to_index(r, b).kind # "ok"
                    THEN [slice |-> slice, panicked |-> TRUE]
                    ELSE [slice |-> [slice EXCEPT !.blocks = WriteBlocks(@, r, B, index, data)],
                          panicked |-> FALSE]

RECURSIVE get_slice_sectors(_, _, _, _)
get_slice_sectors(secs, k, r, slice) ==
    IF k > Len(secs) THEN Ok(slice)
    ELSE LET o == get_slice_sector(secs[k], r, slice)
         IN IF o.panicked THEN Panic
            ELSE get_slice_sectors(secs, k + 1, r, o.slice)

\* A bulk read that leaves out the first sector of the world.
get_sliceSkipFirstSector(secs, r) ==
    get_slice_sectors(secs, 2, r, BlockRegion_new(r))

\* VoxelWorld::get_slice (get_block_region of the VoxelStorageRegion trait):
\* Ok(slice), or Panic when an unwrap() fails.
get_slice(secs, r) == get_slice_sectors(secs, 1, r, BlockRegion_new(r))

\* VoxelWorld::validate_region_loaded
validate_region_loaded(secs, r) ==
    \A chunk_coords \in Points(region_chunks(r)) :
        LET si == FindSector(secs, ShrV(chunk_coords, 4))
            ci == point_to_index(CHUNK, And15V(chunk_coords))
        IN si # 0 /\ ci.kind = "ok" /\ ci.val \in DOMAIN secs[si].chunks

\* The body of fill_slice's loop for one chunk coordinate.
fill_slice_chunk(secs, chunk_coords, slice) ==
    LET si == FindSector(secs, ShrV(chunk_coords, 4))
        ci == point_to_index(CHUNK, And15V(chunk_coords))
        br == intersection(shift(CHUNK, ShlV(chunk_coords, 4)), slice.region)
    IN IF si = 0 \/ ci.kind # "ok" THEN [w |-> secs, ret |-> Panic]
       ELSE IF ci.val \notin DOMAIN secs[si].chunks \/ br.kind # "ok"
       THEN [w |-> secs, ret |-> Panic]
       ELSE LET here == shift(CHUNK, ShlV(chunk_coords, 4))
                index(b) == point_to_index(CHUNK, CellOf(b)).val
                data(b) == slice_get_block(slice, b).val
            IN [w |-> [secs EXCEPT ![si].chunks[ci.val].blocks =
                          WriteBlocks(@, here, Points(br.val), index, data)],
                ret |-> Ok(0)]

RECURSIVE fill_slice_chunks(_, _, _, _)
fill_slice_chunks(secs, chunks, k, slice) ==
    IF k > Len(chunks) THEN [w |-> secs, ret |-> Ok(0)]
    ELSE LET o == fill_slice_chunk(secs, chunks[k], slice)
         IN IF o.ret.kind # "ok" THEN o
            ELSE fill_slice_chunks(o.w, chunks, k + 1, slice)

\* A bulk write that does not look whether the chunks are there and stops
\* at the first chunk it misses, with an error.
fill_sliceUnvalidated(secs, slice) ==
    LET o == fill_slice_chunks(secs, RegionPoints(region_chunks(slice.region)), 1, slice)
    IN [w |-> o.w, ret |-> IF o.ret.kind = "ok" THEN Ok(0) ELSE Err]

\* VoxelWorld::fill_slice: the world after the call and the call's result.
fill_slice(secs, slice) ==
    IF ~validate_region_loaded(secs, slice.region) THEN [w |-> secs, ret |-> Err]
    ELSE fill_slice_chunks(secs, RegionPoints(region_chunks(slice.region)), 1, slice)

(***************************************************************************)
(* SpecSlice: a world of three chunks side by side on the x axis, the      *)
(* first in sector (-1, 0, 0) and the others in sector (0, 0, 0), built by *)
(* prepare_chunk, init_chunk and unload_chunk, and read and written in     *)
(* bulk over regions that span chunks and sectors.  lastOp holds the       *)
(* region in `at`, the slice written in `data` and the slice read in       *)
(* `ret`.                                                                  *)
(***************************************************************************)
SliceChunks == {<<-1, 0, 0>>, <<0, 0, 0>>, <<1, 0, 0>>}
\* Eight chunks of eight sectors, six of them never there; three chunks of
\* two sectors; the border of the sectors 0 and 1, whose chunks are never
\* there.
SliceRegions ==
    {from_points(<<-1, -1, -1>>, <<0, 0, 0>>),
     from_points(<<-1, 0, 0>>, <<16, 0, 0>>),
     from_points(<<255, 0, 0>>, <<256, 0, 0>>)}

\* The slice over r with the value k at every point, for k in Values, and
\* with values that change from point to point for k = MaxValue + 1.
SliceOf(r, k) ==
    LET index(b) == point_to_index(r, b).val
        data(b) == IF k <= MaxValue THEN k ELSE (b[1] + b[2] + b[3]) % (MaxValue + 1)
    IN [region |-> r, blocks |-> WriteBlocks(Empty, r, Points(r), index, data)]
TestSlices == {SliceOf(r, k) : r \in SliceRegions, k \in 0..(MaxValue + 1)}

OtherThanSlice ==
    UNCHANGED <<shadow, coordVars, regionVars, iterVars, schedVars, loadVars>>

SInitChunk == (\E c \in SliceChunks : DoInitChunk(c)) /\ OtherThanSlice
SPrepareChunk == (\E c \in SliceChunks : DoPrepareChunk(c)) /\ OtherThanSlice
SUnloadChunk == (\E c \in SliceChunks : DoUnloadChunk(c)) /\ OtherThanSlice

GetSlice ==
    /\ \E r \in SliceRegions :
          lastOp' = Call("get_slice", r, 0, get_slice(sectors, r), NoList)
    /\ UNCHANGED sectors
    /\ OtherThanSlice

FillSlice ==
    /\ \E slice \in TestSlices :
          LET o == fill_slice(sectors, slice)
          IN /\ sectors' = o.w
             /\ lastOp' = Call("fill_slice", slice.region, slice, o.ret, NoList)
    /\ OtherThanSlice

NextSlice ==
    \/ SInitChunk \/ SPrepareChunk \/ SUnloadChunk
    \/ GetSlice \/ FillSlice

SpecSlice == InitBlocks /\ [][NextSlice]_vars

\* C25: for every world state and every region R (spanning any number of
\* chunks and sectors, negative coordinates included, loaded and unloaded
\* chunks mixed), the bulk read get_slice(R) returns a buffer whose value at
\* each point p of R equals get_block(p), the default wherever the chunk is
\* not loaded, and it never panics.
C25_SliceEqualsGetBlock ==
    lastOp.op = "get_slice"
        => /\ lastOp.ret.kind = "ok"
           /\ lastOp.ret.val.region = lastOp.at
           /\ \A b \in Points(lastOp.at) :
                 slice_get_block(lastOp.ret.val, b) = get_block(sectors, b)

\* C25's case: a read over a region of three chunks in two sectors, the
\* middle chunk missing, that returns a value other than the default in the
\* first and in the last chunk.
C25_Witness ==
    /\ lastOp.op = "get_slice"
    /\ lastOp.at = from_points(<<-1, 0, 0>>, <<16, 0, 0>>)
    /\ ~Present(sectors, <<0, 0, 0>>)
    /\ slice_get_block(lastOp.ret.val, <<-1, 0, 0>>) # Ok(Default)
    /\ slice_get_block(lastOp.ret.val, <<16, 0, 0>>) # Ok(Default)

\* The chunks that are present, with their load states.
ChunkStates(secs) ==
    [c \in SliceChunks |->
        IF Present(secs, c) THEN get_chunk_load_state(secs, c) ELSE "absent"]
\* The block coordinates read outside the region of a write: the ends of the
\* chunks and their neighbours.
SliceProbe ==
    {<<-17, 0, 0>>, <<-16, 0, 0>>, <<-2, 0, 0>>, <<-1, 0, 0>>, <<0, 0, 0>>,
     <<1, 0, 0>>, <<15, 0, 0>>, <<16, 0, 0>>, <<17, 0, 0>>, <<31, 0, 0>>,
     <<32, 0, 0>>, <<0, 1, 0>>, <<-1, 0, 1>>, <<0, -1, -1>>}

\* What a call of fill_slice does.
C26_Step ==
    lastOp'.op = "fill_slice" =>
        /\ lastOp'.ret.kind \in {"ok", "err"}
        /\ lastOp'.ret.kind = "err"
              <=> \E c \in Points(region_chunks(lastOp'.at)) : ~Present(sectors, c)
        /\ lastOp'.ret.kind = "err"
              => \A q \in SliceProbe : get_block(sectors', q) = get_block(sectors, q)
        /\ lastOp'.ret.kind = "ok"
              => /\ \A p \in Points(lastOp'.at) :
                       get_block(sectors', p) = slice_get_block(lastOp'.data, p)
                 /\ \A q \in SliceProbe :
                       contains(lastOp'.at, q)
                           \/ get_block(sectors', q) = get_block(sectors, q)
        /\ ChunkStates(sectors') = ChunkStates(sectors)

\* C26: fill_slice(slice) over region R: if any chunk overlapping R is not
\* present it returns an error and no block of the world changes; otherwise
\* it succeeds and afterwards get_block(p) is the slice's value for every p
\* in R while get_block(q) is unchanged for every q outside R, and the set
\* of loaded chunks is unchanged.
C26_FillSliceAllOrNothing == [][C26_Step]_vars

\* C26's cases: a write over three chunks of two sectors that succeeded with
\* values that differ between the points, and one that failed because the
\* second chunk was missing while the first held a block.
C26_Witness ==
    /\ lastOp.op = "fill_slice"
    /\ lastOp.at = from_points(<<-1, 0, 0>>, <<16, 0, 0>>)
    /\ lastOp.ret.kind = "ok"
    /\ get_block(sectors, <<-1, 0, 0>>) # get_block(sectors, <<16, 0, 0>>)
C26_WitnessError ==
    /\ lastOp.op = "fill_slice"
    /\ lastOp.ret.kind = "err"
    /\ lastOp.at = from_points(<<-1, 0, 0>>, <<16, 0, 0>>)
    /\ Present(sectors, <<-1, 0, 0>>) /\ ~Present(sectors, <<0, 0, 0>>)
    /\ get_block(sectors, <<-1, 0, 0>>) # Ok(Default)
    /\ slice_get_block(lastOp.data, <<-1, 0, 0>>) = Ok(Default)

(***************************************************************************)
(* SpecFill: init_chunk(c).fill_blocks(slice) on a world of two chunks in  *)
(* two sectors (src/src/storage/init_chunk_result.rs).  The slices cover   *)
(* the region of one of the chunks, one row of it, or the chunk and one    *)
(* layer more.                                                             *)
(***************************************************************************)
FillChunks == {<<-1, 0, 0>>, <<0, 0, 0>>}
FillRegions ==
    {shift(CHUNK, ShlV(c, 4)) : c \in FillChunks}
        \cup {from_points(<<0, 0, 0>>, <<15, 0, 0>>),
              from_points(<<0, 0, 0>>, <<15, 15, 16>>)}
FillSlices == {SliceOf(r, k) : r \in FillRegions, k \in {MaxValue, MaxValue + 1}}

\* InitChunkResult::new
InitChunkResult_new(storage, result, chunk_coords) ==
    [storage |-> storage, chunk_coords |-> chunk_coords, result |-> result]

\* A fill_blocks that takes a slice of any region.
fill_blocksAnyRegion(res, slice) ==
    IF res.result.kind # "ok" THEN [w |-> res.storage, ret |-> res.result]
    ELSE fill_slice(res.storage, slice)

\* InitChunkResult::fill_blocks: the world after the call and Ok, Err or
\* Panic for what it returns.
fill_blocks(res, slice) ==
    IF res.result.kind # "ok" THEN [w |-> res.storage, ret |-> res.result]
    ELSE IF slice.region # shift(CHUNK, ShlV(res.chunk_coords, 4))
    THEN [w |-> res.storage, ret |-> Err]
    ELSE fill_slice(res.storage, slice)

\* world.init_chunk(c).fill_blocks(slice)
InitFillBlocks ==
    /\ \E c \in FillChunks, slice \in FillSlices :
          LET i == init_chunk(sectors, c)
              o == fill_blocks(InitChunkResult_new(i.w, i.ret, c), slice)
          IN /\ sectors' = o.w
             /\ lastOp' = Call("fill_blocks", c, slice, o.ret, NoList)
    /\ OtherThanSlice

FUnloadChunk == (\E c \in FillChunks : DoUnloadChunk(c)) /\ OtherThanSlice

NextFill == InitFillBlocks \/ FUnloadChunk

SpecFill == InitBlocks /\ [][NextFill]_vars

\* The block coordinates read around a fill_blocks call: the corners of the
\* two chunks, cells inside them and their neighbours.
FillProbe ==
    {<<x, y, z>> : x \in {-17, -16, -9, -1, 0, 15, 16}, y \in {-1, 0, 15, 16},
                   z \in {0, 15, 16}}

\* The blocks array of the chunk at c, which is present.
BlocksOf(secs, c) ==
    secs[FindSector(secs, FloorSector(c))].chunks[FloorSlot(c)].blocks

\* What a call of init_chunk(c).fill_blocks(slice) does.
C27_Step ==
    lastOp'.op = "fill_blocks" =>
        LET c == lastOp'.at
            slice == lastOp'.data
            exact == slice.region = Region(<<16 * c[1], 16 * c[2], 16 * c[3]>>,
                                           <<16, 16, 16>>)
        IN /\ lastOp'.ret.kind = (IF ~IsLoaded(sectors, c) /\ exact THEN "ok" ELSE "err")
           /\ lastOp'.ret.kind = "err"
                 => \A q \in FillProbe : get_block(sectors', q) = get_block(sectors, q)
           /\ lastOp'.ret.kind = "ok"
                 => /\ Present(sectors', c)
                    /\ BlocksOf(sectors', c) = slice.blocks
                    /\ \A q \in FillProbe :
                          get_block(sectors', q) =
                              IF contains(slice.region, q) THEN slice_get_block(slice, q)
                              ELSE get_block(sectors, q)

\* C27: fill_blocks writes block data only when the chunk initialisation
\* succeeded and the slice's region is exactly the 16x16x16 region of the
\* initialised chunk; if init_chunk failed it returns that error, if the
\* regions differ it returns a mismatch error, and in both error cases no
\* block value in the world is changed.
C27_FillBlocksExactRegion == [][C27_Step]_vars

\* C27's cases: a fill of the chunk (-1, 0, 0) with values that differ from
\* point to point, and after it a fill of the chunk (0, 0, 0) refused for a
\* slice that covers one layer more than the chunk.
C27_Witness ==
    /\ lastOp.op = "fill_blocks"
    /\ lastOp.at = <<0, 0, 0>>
    /\ lastOp.data.region = from_points(<<0, 0, 0>>, <<15, 15, 16>>)
    /\ lastOp.data.blocks # Empty
    /\ lastOp.ret.kind = "err"
    /\ IsLoaded(sectors, <<0, 0, 0>>)
    /\ get_block(sectors, <<-16, 0, 0>>) # get_block(sectors, <<-15, 0, 0>>)

(***************************************************************************)
(* Unloading: unload_chunk under SpecBlocks, unload_all_chunks under       *)
(* SpecChunks.                                                             *)
(***************************************************************************)
\* What a call of unload_chunk does.
C28_Step ==
    lastOp'.op = "unload_chunk" =>
        LET c == lastOp'.at
            again == init_chunk(sectors', c)
        IN /\ lastOp'.ret.kind = (IF Present(sectors, c) THEN "ok" ELSE "err")
           /\ lastOp'.ret.kind = "err" => sectors' = sectors
           /\ lastOp'.ret.kind = "ok" =>
                 /\ get_chunk_load_state(sectors', c) = "Unloaded"
                 /\ \A q \in TestPoints :
                       get_block(sectors', q) =
                           IF FloorChunk(q) = c THEN Ok(Default)
                           ELSE get_block(sectors, q)
                 /\ \A d \in TestChunks \ {c} :
                       get_chunk_load_state(sectors', d) = get_chunk_load_state(sectors, d)
                 /\ again.ret.kind = "ok"
                 /\ get_chunk_load_state(again.w, c) = "Loaded"
                 /\ \A q \in TestPoints :
                       FloorChunk(q) = c => get_block(again.w, q) = Ok(Default)

\* C28: unload_chunk(c) returns an error, leaving the world unchanged,
\* exactly when no chunk is present at c; on success chunk c becomes
\* Unloaded, every block inside c reads the default value, the load state
\* and block values of every other chunk are unchanged, and a later
\* init_chunk(c) succeeds and yields a default-filled chunk.
C28_UnloadChunk == [][C28_Step]_vars

\* C28's case: a chunk that held a written block has been unloaded while
\* another chunk holds a block.
C28_Witness ==
    /\ lastOp.op = "unload_chunk"
    /\ lastOp.ret.kind = "ok"
    /\ \E q \in TestPoints : FloorChunk(q) = lastOp.at /\ shadow[q] # Default
    /\ \E q \in TestPoints : get_block(sectors, q) # Ok(Default)

\* What a call of unload_all_chunks does.
C29_Step ==
    lastOp'.op = "unload_all_chunks" =>
        LET list == lastOp'.list
        IN /\ {list[k] : k \in DOMAIN list} = {c \in TestChunks : Present(sectors, c)}
           /\ \A j, k \in DOMAIN list : list[j] = list[k] => j = k
           /\ sectors' = <<>>
           /\ \A c \in TestChunks : get_chunk_load_state(sectors', c) = "Unloaded"
           /\ \A q \in TestPoints : get_block(sectors', q) = Ok(Default)

\* Only the chunks of TestChunks are ever present, so C29_Step's list is
\* compared with all chunks of the world.
C29_OnlyTestChunks ==
    \A i \in DOMAIN sectors : \A s \in DOMAIN sectors[i].chunks :
        sectors[i].chunks[s].chunk_coords \in TestChunks
        /\ Present(sectors, sectors[i].chunks[s].chunk_coords)

\* C29: unload_all_chunks returns a list containing exactly the chunk
\* coordinates that were present in the world before the call, each exactly
\* once (the empty list for an empty world), and afterwards every chunk
\* coordinate is Unloaded, the sector collection is empty and every
\* get_block returns the default value.
C29_UnloadAllChunks == []C29_OnlyTestChunks /\ [][C29_Step]_vars

\* C29's case: unload_all_chunks has returned the chunks of two sectors.
C29_Witness ==
    /\ lastOp.op = "unload_all_chunks"
    /\ Len(lastOp.list) >= 2
    /\ \E j, k \in DOMAIN lastOp.list :
          FloorSector(lastOp.list[j]) # FloorSector(lastOp.list[k])
    /\ sectors = <<>>

(***************************************************************************)
(* SpecRemesh: who gets the RemeshChunk marker.  World 1 holds the chunk   *)
(* (0, 0, 0), whose generation task is done, and any of the chunks of      *)
(* RemeshCandidates around it; one call is made and the command queue is   *)
(* applied.  `picked` holds the call and the entities that carry the       *)
(* marker.                                                                 *)
(***************************************************************************)
\* Face neighbours with storage, a face neighbour still waiting to be
\* generated, edge and corner neighbours on either side of the sum test of
\* finish_chunk_loading, a chunk two steps away and a chunk of world 2.
RemeshCandidates ==
    << [w |-> 1, c |-> <<0, 0, 0>>,    storage |-> FALSE],
       [w |-> 1, c |-> <<1, 0, 0>>,    storage |-> TRUE],
       [w |-> 1, c |-> <<0, -1, 0>>,   storage |-> TRUE],
       [w |-> 1, c |-> <<-1, 0, 0>>,   storage |-> FALSE],
       [w |-> 1, c |-> <<1, -1, 0>>,   storage |-> TRUE],
       [w |-> 1, c |-> <<1, 1, 0>>,    storage |-> TRUE],
       [w |-> 1, c |-> <<-1, -1, -1>>, storage |-> TRUE],
       [w |-> 1, c |-> <<2, 0, 0>>,    storage |-> TRUE],
       [w |-> 2, c |-> <<0, 0, 1>>,    storage |-> TRUE] >>
RemeshTargets == {<<0, 0, 0>>, <<1, 0, 0>>, <<0, 0, 1>>}

RemeshChunkEntity(k) ==
    [ChunkEntity(RemeshCandidates[k].w, RemeshCandidates[k].c) EXCEPT
        !.storage = RemeshCandidates[k].storage,
        !.task = IF k = 1 THEN "done" ELSE "none",
        !.pending = (k # 1 /\ ~RemeshCandidates[k].storage)]

NoCall(flagged) ==
    [call |-> "none", world_id |-> 0, chunk_coords |-> <<0, 0, 0>>, ret |-> Ok(0),
     remesh |-> flagged]

InitRemesh ==
    /\ \E S \in SUBSET (2..Len(RemeshCandidates)) :
          LET ks == SelectSeq([k \in 1..Len(RemeshCandidates) |-> k],
                              LAMBDA k : k = 1 \/ k \in S)
          IN /\ ents = [j \in 1..Len(ks) |-> RemeshChunkEntity(ks[j])]
             /\ pointers = [w \in WorldIds |->
                   [c \in {RemeshCandidates[ks[j]].c :
                              j \in {h \in 1..Len(ks) : RemeshCandidates[ks[h]].w = w}} |->
                       CHOOSE j \in 1..Len(ks) :
                           RemeshCandidates[ks[j]].w = w /\ RemeshCandidates[ks[j]].c = c]]
    /\ anchors = <<>>
    /\ cmds = <<>>
    /\ ran = {}
    /\ stage = "Call"
    /\ picked = NoCall({})
    /\ IdleStorage /\ IdleCoords /\ IdleRegion /\ IdleIter /\ IdleLoad

\* VoxelQuery<Entity, With<VoxelStorage<T>>>::get_chunk (query/system.rs):
\* the pointer is looked up, then the entity in the query of chunks with
\* storage.
query_get_chunk(es, ptrs, world_id, chunk_coords) ==
    IF world_id \notin DOMAIN ptrs THEN Err
    ELSE IF chunk_coords \notin DOMAIN ptrs[world_id] THEN Err
    ELSE LET e == ptrs[world_id][chunk_coords]
         IN IF es[e].alive /\ es[e].storage THEN Ok(e) ELSE Err

\* The remesh loop of finish_chunk_loading for one finished chunk: the
\* insert(RemeshChunk) commands it queues.
finish_remesh(es, ptrs, world_id, chunk_coords) ==
    LET around == SelectSeq(RegionPoints(from_points(<<-1, -1, -1>>, <<1, 1, 1>>)),
                            LAMBDA offset : ~(offset[1] + offset[2] + offset[3] > 1))
        found == SelectSeq(around, LAMBDA offset :
                     query_get_chunk(es, ptrs, world_id,
                                     VAdd(chunk_coords, offset)).kind = "ok")
    IN [k \in 1..Len(found) |->
           EntityCmd("insert_RemeshChunk",
               query_get_chunk(es, ptrs, world_id, VAdd(chunk_coords, found[k])).val)]

\* finish_chunk_loading of world_gen/queue.rs with the feature "meshing":
\* the commands of the system, finished chunk by finished chunk.
RECURSIVE remesh_finish_chunk_loading(_, _, _)
remesh_finish_chunk_loading(es, ptrs, k) ==
    IF k > Len(es) THEN <<>>
    ELSE (IF es[k].alive /\ es[k].task = "done"
          THEN <<EntityCmd("finish_task", k)>>
                   \o finish_remesh(es, ptrs, es[k].world_id, es[k].chunk_coords)
          ELSE <<>>) \o remesh_finish_chunk_loading(es, ptrs, k + 1)

\* VoxelCommands::remesh_chunk (query/commands.rs)
remesh_chunk(es, ptrs, world_id, chunk_coords) ==
    LET f == find_chunk(es, ptrs, world_id, chunk_coords, TRUE)
    IN IF f.kind # "ok" THEN [cmds |-> <<>>, ret |-> Err]
       ELSE [cmds |-> <<EntityCmd("insert_RemeshChunk", f.val)>>, ret |-> Ok(0)]

\* The offsets IVec3::NEG_X, X, NEG_Y, Y, NEG_Z, Z.
NeighborOffsets ==
    << <<-1, 0, 0>>, <<1, 0, 0>>, <<0, -1, 0>>, <<0, 1, 0>>, <<0, 0, -1>>, <<0, 0, 1>> >>

\* The six `let _ = self.remesh_chunk(..)` of remesh_chunk_neighbors, from
\* the k-th on.
RECURSIVE remesh_around(_, _, _, _, _)
remesh_around(es, ptrs, world_id, chunk_coords, k) ==
    IF k > Len(NeighborOffsets) THEN <<>>
    ELSE remesh_chunk(es, ptrs, world_id, VAdd(chunk_coords, NeighborOffsets[k])).cmds
             \o remesh_around(es, ptrs, world_id, chunk_coords, k + 1)

\* VoxelCommands::remesh_chunk_neighbors (query/commands.rs)
remesh_chunk_neighbors(es, ptrs, world_id, chunk_coords) ==
    LET target == remesh_chunk(es, ptrs, world_id, chunk_coords)
    IN IF target.ret.kind # "ok" THEN target
       ELSE [cmds |-> target.cmds \o remesh_around(es, ptrs, world_id, chunk_coords, 1),
             ret |-> Ok(0)]

\* The offsets zero, X, Y, Z, -X, -Y, -Z.
CrateOffsets ==
    << <<0, 0, 0>>, <<1, 0, 0>>, <<0, 1, 0>>, <<0, 0, 1>>,
       <<-1, 0, 0>>, <<0, -1, 0>>, <<0, 0, -1>> >>

\* VoxelRemeshCommands::remesh_chunk_neighbors of bones3_remesh, called on
\* the VoxelChunkCommands of the chunk at chunk_coords.
RECURSIVE crate_remesh_chunk_neighbors(_, _, _, _, _)
crate_remesh_chunk_neighbors(es, ptrs, world_id, chunk_coords, k) ==
    IF k > Len(CrateOffsets) THEN <<>>
    ELSE LET c == get_chunk_id(es, ptrs, world_id, VAdd(chunk_coords, CrateOffsets[k]))
         IN (IF c = None THEN <<>> ELSE <<EntityCmd("insert_RemeshChunk", c[1])>>)
                \o crate_remesh_chunk_neighbors(es, ptrs, world_id, chunk_coords, k + 1)

RemeshCall(call, world_id, chunk_coords, ret) ==
    [call |-> call, world_id |-> world_id, chunk_coords |-> chunk_coords, ret |-> ret,
     remesh |-> picked.remesh]

\* The system finish_chunk_loading runs.
RemeshFinishChunkLoading ==
    /\ stage = "Call"
    /\ cmds' = remesh_finish_chunk_loading(ents, pointers, 1)
    /\ picked' = RemeshCall("finish_chunk_loading", ents[1].world_id,
                            ents[1].chunk_coords, Ok(0))
    /\ stage' = "Flush"
    /\ UNCHANGED <<ents, pointers, anchors, ran>>
    /\ OtherThanSched

\* A system calls VoxelCommands::remesh_chunk_neighbors.
RemeshChunkNeighbors ==
    /\ stage = "Call"
    /\ \E world_id \in WorldIds, chunk_coords \in RemeshTargets :
          LET r == remesh_chunk_neighbors(ents, pointers, world_id, chunk_coords)
          IN /\ cmds' = r.cmds
             /\ picked' = RemeshCall("remesh_chunk_neighbors", world_id, chunk_coords, r.ret)
    /\ stage' = "Flush"
    /\ UNCHANGED <<ents, pointers, anchors, ran>>
    /\ OtherThanSched

\* A system calls remesh_chunk_neighbors of bones3_remesh on a chunk it got
\* from get_chunk.
CrateRemeshChunkNeighbors ==
    /\ stage = "Call"
    /\ \E world_id \in WorldIds, chunk_coords \in RemeshTargets :
          /\ get_chunk_id(ents, pointers, world_id, chunk_coords) # None
          /\ cmds' = crate_remesh_chunk_neighbors(ents, pointers, world_id, chunk_coords, 1)
          /\ picked' = RemeshCall("crate_remesh_chunk_neighbors", world_id, chunk_coords,
                                  Ok(0))
    /\ stage' = "Flush"
    /\ UNCHANGED <<ents, pointers, anchors, ran>>
    /\ OtherThanSched

\* One command of the queue: insert(RemeshChunk) puts the marker on a live
\* entity.
RemeshApply(w, c) ==
    LET a == ApplyCommand(w, c)
    IN IF c.op = "insert_RemeshChunk" /\ ~a.panicked
       THEN [a EXCEPT !.remesh = @ \cup {c.e}]
       ELSE a

RECURSIVE RemeshApplyAll(_, _)
RemeshApplyAll(w, cs) ==
    IF cs = <<>> THEN w ELSE RemeshApplyAll(RemeshApply(w, Head(cs)), Tail(cs))

\* The command queue is applied.
RemeshFlush ==
    /\ stage = "Flush"
    /\ LET w == RemeshApplyAll([ents |-> ents, pointers |-> pointers,
                                panicked |-> FALSE, remesh |-> picked.remesh], cmds)
       IN /\ ents' = w.ents
          /\ pointers' = w.pointers
          /\ picked' = [picked EXCEPT !.remesh = w.remesh]
          /\ stage' = IF w.panicked THEN "panicked" ELSE "Done"
    /\ cmds' = <<>>
    /\ UNCHANGED <<anchors, ran>>
    /\ OtherThanSched

NextRemesh ==
    \/ RemeshFinishChunkLoading \/ RemeshChunkNeighbors
    \/ CrateRemeshChunkNeighbors \/ RemeshFlush

SpecRemesh == InitRemesh /\ [][NextRemesh]_vars

\* The entities of the chunks that exist among the chunk at c and its six
\* face neighbours in world w.
FaceOffsets ==
    {o \in {-1, 0, 1} \X {-1, 0, 1} \X {-1, 0, 1} :
        (IF o[1] = 0 THEN 0 ELSE 1) + (IF o[2] = 0 THEN 0 ELSE 1)
            + (IF o[3] = 0 THEN 0 ELSE 1) <= 1}
TargetAndFaces(w, c) ==
    {e \in DOMAIN ents :
        /\ ents[e].alive
        /\ ents[e].world_id = w
        /\ \E o \in FaceOffsets : ents[e].chunk_coords = VAdd(c, <<o[1], o[2], o[3]>>)}

\* The call of `picked` was made for a chunk that exists, and its commands
\* have been applied.
RemeshDone(call) ==
    /\ stage = "Done"
    /\ picked.call = call
    /\ picked.chunk_coords \in DOMAIN pointers[picked.world_id]

\* remesh_chunk_neighbors, of either crate, flags the target and its faces.
C30_Neighbors ==
    (RemeshDone("remesh_chunk_neighbors") \/ RemeshDone("crate_remesh_chunk_neighbors"))
        => picked.remesh = TargetAndFaces(picked.world_id, picked.chunk_coords)

\* finish_chunk_loading flags the target and its faces.
C30_Finish ==
    RemeshDone("finish_chunk_loading")
        => picked.remesh = TargetAndFaces(picked.world_id, picked.chunk_coords)

\* C30: when a chunk finishes generating (finish_chunk_loading) or
\* remesh_chunk_neighbors is invoked for it, the chunks flagged with
\* RemeshChunk are exactly the existing chunks among the target chunk and
\* its six face-adjacent neighbours; no edge-adjacent or corner-adjacent
\* chunk is flagged.
C30_RemeshTargetAndFaces == C30_Neighbors /\ C30_Finish

(***************************************************************************)
(* SpecAnchorIter: the ChunkAnchor of src/src/world_gen/anchor.rs, which   *)
(* has an optional world and the field last_center.  `anchors` holds the   *)
(* one anchor, `picked` the last call, its centre and what its iterator    *)
(* yielded.                                                                *)
(***************************************************************************)
\* The centres iter is called with: the chunks 0..IterSpan along x and y.
IterCentres == {<<x, y, 0>> : x \in 0..IterSpan, y \in 0..IterSpan}

\* ChunkAnchor::new of src/src/world_gen/anchor.rs
world_gen_ChunkAnchor_new(world, radius, max_radius) ==
    [world        |-> Some(world),
     radius       |-> radius,
     max_radius   |-> IF max_radius < radius THEN radius ELSE max_radius,
     weighted_dir |-> <<0, 0, 0>>,
     last_center  |-> None]

\* ChunkAnchor::set_world of src/src/world_gen/anchor.rs
world_gen_set_world(anchor, world) ==
    [anchor EXCEPT !.world = world, !.last_center = None]

\* ChunkAnchor::set_radius of src/src/world_gen/anchor.rs
world_gen_set_radius(anchor, radius) ==
    [anchor EXCEPT !.radius = radius,
                   !.last_center = None,
                   !.max_radius = IF @ < radius THEN radius ELSE @]

\* ChunkAnchor::iter of src/src/world_gen/anchor.rs: the anchor after the
\* call and the coordinates the returned iterator yields.  The body reads
\* self.radius and writes no field.
world_gen_iter(anchor, center) ==
    [anchor  |-> anchor,
     yielded |-> RegionPoints(from_points(VAddS(center, -anchor.radius),
                                          VAddS(center, anchor.radius)))]

\* The n-th call made on the anchor, its centre and what it yielded.
IterCall(op, center, result, n) ==
    [op |-> op, center |-> center, yielded |-> result, n |-> n]

InitAnchorIter ==
    /\ \E r \in 0..IterRadius, mr \in 0..IterRadius :
          anchors = << world_gen_ChunkAnchor_new(1, r, mr) >>
    /\ picked = IterCall("new", <<0, 0, 0>>, <<>>, 0)
    /\ ents = <<>> /\ pointers = <<>> /\ cmds = <<>> /\ ran = {}
    /\ stage = "AnchorIter"
    /\ IdleStorage /\ IdleCoords /\ IdleRegion /\ IdleIter /\ IdleLoad

AnchorIter ==
    /\ stage = "AnchorIter"
    /\ picked.n < MaxIterCalls
    /\ \E center \in IterCentres :
          LET res == world_gen_iter(anchors[1], center) IN
          /\ anchors' = << res.anchor >>
          /\ picked' = IterCall("iter", center, res.yielded, picked.n + 1)
    /\ UNCHANGED <<ents, pointers, cmds, ran, stage>>
    /\ OtherThanSched

AnchorSetRadius ==
    /\ stage = "AnchorIter"
    /\ picked.n < MaxIterCalls
    /\ \E r \in 0..IterRadius :
          anchors' = << world_gen_set_radius(anchors[1], r) >>
    /\ picked' = IterCall("set_radius", <<0, 0, 0>>, <<>>, picked.n + 1)
    /\ UNCHANGED <<ents, pointers, cmds, ran, stage>>
    /\ OtherThanSched

AnchorSetWorld ==
    /\ stage = "AnchorIter"
    /\ picked.n < MaxIterCalls
    /\ \E w \in {None, Some(1), Some(2)} :
          anchors' = << world_gen_set_world(anchors[1], w) >>
    /\ picked' = IterCall("set_world", <<0, 0, 0>>, <<>>, picked.n + 1)
    /\ UNCHANGED <<ents, pointers, cmds, ran, stage>>
    /\ OtherThanSched

NextAnchorIter == AnchorIter \/ AnchorSetRadius \/ AnchorSetWorld

SpecAnchorIter == InitAnchorIter /\ [][NextAnchorIter]_vars

\* iter(center) yields every chunk coordinate of the cube
\* [center - radius, center + radius], each once.
C31_IterYieldsCube ==
    picked.op = "iter" =>
        LET r == anchors[1].radius IN
        /\ Range(picked.yielded) =
              {VAdd(picked.center, <<dx, dy, dz>>) :
                  dx \in -r..r, dy \in -r..r, dz \in -r..r}
        /\ Len(picked.yielded) = (2 * r + 1) * (2 * r + 1) * (2 * r + 1)

\* iter records the centre it was called with.
C31_IterMarksUpToDate ==
    picked.op = "iter" => anchors[1].last_center = Some(picked.center)

\* An iter call with the centre of the iter call just before it, no
\* set_radius or set_world call in between, yields no coordinates.
C31_Step ==
    (picked.op = "iter" /\ picked'.op = "iter"
        /\ picked'.center = picked.center)
    => picked'.yielded = <<>>

\* C31: iter(center) marks the anchor as up to date: after a call with
\* centre c, every further iter call with the same centre yields no
\* coordinates until the anchor has moved to a different chunk, or
\* set_radius / set_world has cleared the cache.
C31_IterOncePerCentre == [][C31_Step]_vars

(***************************************************************************)
(* SpecForce: force_load_chunks and load_chunks_async of                   *)
(* crates/bones3_worldgen/src/queue.rs on the VoxelCommands of             *)
(* src/src/query/commands.rs, whose spawn_chunk writes the pointer table   *)
(* at once and queues the entity.  In a frame each of the two systems runs *)
(* at most once, in either order, and the frame ends with the command      *)
(* flush.  `picked` holds the pointer tables and the entities the frame    *)
(* started with and the systems of the last finished frame.                *)
(***************************************************************************)
\* A chunk entity spawned with the given bundle.
ForceChunkEntity(world_id, chunk_coords, bundle) ==
    [alive        |-> TRUE,
     world_id     |-> world_id,
     chunk_coords |-> chunk_coords,
     pending      |-> bundle = "PendingLoadChunkTask",
     task         |-> IF bundle = "LoadChunkTask" THEN "running" ELSE "none",
     storage      |-> bundle = "VoxelStorage",
     remesh       |-> FALSE]

\* An entity with Transform and the worldgen ChunkAnchor::new(world, radius,
\* radius, force_radius).
ForceAnchorAt(world, radius, force_radius, translation) ==
    [world        |-> world,
     radius       |-> radius,
     force_radius |-> force_radius,
     translation  |-> translation]

\* The anchors a run draws from; world 3 does not exist.
ForceAnchors ==
    << ForceAnchorAt(1, 1, 0, <<0, 0, 0>>),
       ForceAnchorAt(1, 0, 1, <<17, 0, 0>>),
       ForceAnchorAt(1, 1, -1, <<16, 15, 0>>),
       ForceAnchorAt(2, 0, 0, <<0, 0, 0>>),
       ForceAnchorAt(3, 1, 1, <<0, 0, 0>>),
       ForceAnchorAt(1, 0, -1, <<-1, 0, 0>>) >>

\* The chunks of world 1 a run starts with, as <<chunk_coords, bundle>>.
ForceExisting ==
    { <<>>,
      << <<<<0, 0, 0>>, "PendingLoadChunkTask">> >>,
      << <<<<1, 0, 0>>, "LoadChunkTask">> >>,
      << <<<<0, 0, 0>>, "VoxelStorage">>, <<<<1, 0, 0>>, "PendingLoadChunkTask">> >> }

\* The sequences of 1..n distinct anchors, in every iteration order.
ForceAnchorSeqs(n) ==
    UNION {{s \in [1..k -> 1..Len(ForceAnchors)] :
               \A i, j \in 1..k : i # j => s[i] # s[j]} : k \in 1..n}

\* ChunkAnchor::iter of crates/bones3_worldgen/src/anchor.rs
anchor_iter(anchor, center) ==
    RegionPoints(from_points(VAddS(center, -anchor.radius),
                             VAddS(center, anchor.radius)))

\* ChunkAnchor::iter_force
iter_force(anchor, center) ==
    IF anchor.force_radius >= 0
    THEN Some(RegionPoints(from_points(VAddS(center, -anchor.force_radius),
                                       VAddS(center, anchor.force_radius))))
    ELSE None

\* VoxelCommands::has_world
has_world(ptrs, world_id) == world_id \in DOMAIN ptrs

\* The command Commands::spawn(VoxelChunk::new(..)).insert(bundle) queues for
\* the entity id it reserved.
SpawnCmd(e, world_id, chunk_coords, bundle) ==
    [op |-> "spawn_bundle", e |-> e, world_id |-> world_id,
     chunk_coords |-> chunk_coords, bundle |-> bundle]

\* VoxelCommands::spawn_chunk of src/src/query/commands.rs: `next` is the
\* entity id Commands::spawn reserves.
commands_spawn_chunk(es, ptrs, next, world_id, chunk_coords, bundle) ==
    IF find_chunk(es, ptrs, world_id, chunk_coords, TRUE).kind = "ok"
    THEN [ret |-> Err, cmds |-> <<>>, pointers |-> ptrs]
    ELSE IF ~has_world(ptrs, world_id)
    THEN [ret |-> Err, cmds |-> <<>>, pointers |-> ptrs]
    ELSE [ret |-> Ok(next),
          cmds |-> <<SpawnCmd(next, world_id, chunk_coords, bundle)>>,
          pointers |-> [ptrs EXCEPT ![world_id] = Put(@, chunk_coords, next)]]

\* The body of `for chunk_coords in chunk_iter` of both systems, from the
\* k-th coordinate on: st holds the pointer tables, the commands queued and
\* the next free entity id.  force_load_chunks spawns with a VoxelStorage and
\* calls remesh_chunk_neighbors (feature meshing); load_chunks_async spawns
\* with PendingLoadChunkTask.
RECURSIVE load_coords(_, _, _, _, _, _)
load_coords(es, st, world_id, coords, k, bundle) ==
    IF k > Len(coords) \/ st.panicked THEN st
    ELSE IF find_chunk(es, st.pointers, world_id, coords[k], TRUE).kind = "ok"
    THEN load_coords(es, st, world_id, coords, k + 1, bundle)
    ELSE
        LET s  == commands_spawn_chunk(es, st.pointers, st.next, world_id,
                                       coords[k], bundle)
            rm == IF bundle = "VoxelStorage"
                  THEN remesh_chunk_neighbors(es, s.pointers, world_id, coords[k])
                  ELSE [cmds |-> <<>>, ret |-> Ok(0)]
        IN load_coords(es,
                       [pointers |-> s.pointers,
                        cmds     |-> st.cmds \o s.cmds \o rm.cmds,
                        next     |-> st.next + 1,
                        panicked |-> s.ret.kind # "ok" \/ rm.ret.kind # "ok"],
                       world_id, coords, k + 1, bundle)

\* force_load_chunks, from the k-th anchor of the query on.
RECURSIVE force_load_chunks(_, _, _, _)
force_load_chunks(as, es, st, k) ==
    IF k > Len(as) \/ st.panicked THEN st
    ELSE IF ~has_world(st.pointers, as[k].world)
    THEN force_load_chunks(as, es, st, k + 1)
    ELSE
        LET chunk_iter == iter_force(as[k], anchor_center(as[k].translation))
        IN IF chunk_iter = None
           THEN force_load_chunks(as, es, st, k + 1)
           ELSE force_load_chunks(as, es,
                    load_coords(es, st, as[k].world, chunk_iter[1], 1,
                                "VoxelStorage"),
                    k + 1)

\* load_chunks_async, from the k-th anchor of the query on: the `break` that
\* ends the loop body leaves the loop after the first anchor whose world
\* exists.
RECURSIVE load_chunks_async(_, _, _, _)
load_chunks_async(as, es, st, k) ==
    IF k > Len(as) \/ st.panicked THEN st
    ELSE IF ~has_world(st.pointers, as[k].world)
    THEN load_chunks_async(as, es, st, k + 1)
    ELSE load_coords(es, st, as[k].world,
                     anchor_iter(as[k], anchor_center(as[k].translation)),
                     1, "PendingLoadChunkTask")

\* The entity ids the queued commands have reserved.
ReservedIds(es, cs) == Len(es) + Len(SelectSeq(cs, LAMBDA c : c.op = "spawn_bundle"))

\* The command queue applied: every reserved entity is created with its
\* bundle and every insert(RemeshChunk) marks its entity.
force_apply(es, cs) ==
    LET spawns  == SelectSeq(cs, LAMBDA c : c.op = "spawn_bundle")
        flagged == {cs[k].e : k \in {j \in 1..Len(cs) : cs[j].op = "insert_RemeshChunk"}}
    IN [i \in 1..(Len(es) + Len(spawns)) |->
           LET e == IF i <= Len(es) THEN es[i]
                    ELSE LET s == spawns[i - Len(es)]
                         IN ForceChunkEntity(s.world_id, s.chunk_coords, s.bundle)
           IN [e EXCEPT !.remesh = @ \/ i \in flagged]]

ForceFrame(systems, es, ptrs) ==
    [ran |-> systems, ents |-> es, pointers |-> ptrs]

InitForce ==
    /\ \E s \in ForceAnchorSeqs(MaxForceAnchors) :
          anchors = [k \in 1..Len(s) |-> ForceAnchors[s[k]]]
    /\ \E ex \in ForceExisting :
          /\ ents = [k \in 1..Len(ex) |-> ForceChunkEntity(1, ex[k][1], ex[k][2])]
          /\ pointers = [w \in WorldIds |->
                IF w = 1 THEN [c \in {ex[k][1] : k \in 1..Len(ex)} |->
                                  CHOOSE k \in 1..Len(ex) : ex[k][1] = c]
                ELSE Empty]
    /\ cmds = <<>>
    /\ ran = {}
    /\ stage = "Force"
    /\ picked = ForceFrame({}, ents, pointers)
    /\ IdleStorage /\ IdleCoords /\ IdleRegion /\ IdleIter /\ IdleLoad

ForceLoadChunks ==
    /\ stage = "Force" /\ "force_load_chunks" \notin ran
    /\ LET st == force_load_chunks(anchors, ents,
                     [pointers |-> pointers, cmds |-> cmds,
                      next |-> ReservedIds(ents, cmds) + 1, panicked |-> FALSE], 1)
       IN /\ ran' = ran \cup {"force_load_chunks"}
          /\ stage' = IF st.panicked THEN "panicked" ELSE stage
          /\ pointers' = st.pointers
          /\ cmds' = st.cmds
    /\ UNCHANGED <<ents, anchors, picked>>
    /\ OtherThanSched

LoadChunksAsync ==
    /\ stage = "Force" /\ "load_chunks_async" \notin ran
    /\ LET st == load_chunks_async(anchors, ents,
                     [pointers |-> pointers, cmds |-> cmds,
                      next |-> ReservedIds(ents, cmds) + 1, panicked |-> FALSE], 1)
       IN /\ ran' = ran \cup {"load_chunks_async"}
          /\ stage' = IF st.panicked THEN "panicked" ELSE stage
          /\ pointers' = st.pointers
          /\ cmds' = st.cmds
    /\ UNCHANGED <<ents, anchors, picked>>
    /\ OtherThanSched

\* The frame ends: the queued commands are applied.
ForceFlush ==
    /\ stage = "Force"
    /\ ran # {}
    /\ ents' = force_apply(ents, cmds)
    /\ cmds' = <<>>
    /\ ran' = {}
    /\ picked' = ForceFrame(ran, picked.ents, picked.pointers)
    /\ stage' = "ForceDone"
    /\ UNCHANGED <<pointers, anchors>>
    /\ OtherThanSched

\* The next frame starts.
ForceNextFrame ==
    /\ stage = "ForceDone"
    /\ stage' = "Force"
    /\ picked' = ForceFrame({}, ents, pointers)
    /\ UNCHANGED <<ents, pointers, anchors, cmds, ran>>
    /\ OtherThanSched

NextForce == ForceLoadChunks \/ LoadChunksAsync \/ ForceFlush \/ ForceNextFrame

SpecForce == InitForce /\ [][NextForce]_vars

\* The frame that just ended ran the system `name` and applied its commands.
ForceFlushed(name) == stage = "ForceDone" /\ name \in picked.ran

\* The cube [center - r, center + r] of an anchor.
CubeAround(anchor, r) ==
    {VAdd(anchor_center(anchor.translation), <<dx, dy, dz>>) :
        dx \in -r..r, dy \in -r..r, dz \in -r..r}

\* The chunk the pointer table of world w resolves for c has a VoxelStorage.
ForceLoadedAt(w, c) ==
    /\ c \in DOMAIN pointers[w]
    /\ pointers[w][c] \in DOMAIN ents
    /\ ents[pointers[w][c]].alive /\ ents[pointers[w][c]].storage

\* After the tick every forced coordinate is Loaded.
C32_ForcedLoaded ==
    ForceFlushed("force_load_chunks") =>
        \A k \in 1..Len(anchors) :
            (has_world(pointers, anchors[k].world) /\ anchors[k].force_radius >= 0)
            => \A c \in CubeAround(anchors[k], anchors[k].force_radius) :
                  ForceLoadedAt(anchors[k].world, c)

\* After the tick every forced coordinate has a chunk entity, and it is
\* Loaded when the coordinate had no chunk before force_load_chunks ran.
C32_MissingLoaded ==
    (ForceFlushed("force_load_chunks") /\ picked.ran = {"force_load_chunks"}) =>
        \A k \in 1..Len(anchors) :
            (has_world(pointers, anchors[k].world) /\ anchors[k].force_radius >= 0)
            => \A c \in CubeAround(anchors[k], anchors[k].force_radius) :
                  /\ c \in DOMAIN pointers[anchors[k].world]
                  /\ c \notin DOMAIN picked.pointers[anchors[k].world]
                        => ForceLoadedAt(anchors[k].world, c)

\* force_load_chunks creates chunks only inside the cubes of the anchors
\* with a force radius >= 0; an anchor with a negative one forces none.
C32_OnlyForced ==
    ("force_load_chunks" \notin ran /\ "force_load_chunks" \in ran') =>
        \A w \in DOMAIN pointers : \A c \in DOMAIN pointers'[w] \ DOMAIN pointers[w] :
            \E k \in 1..Len(anchors) :
                /\ anchors[k].world = w /\ anchors[k].force_radius >= 0
                /\ c \in CubeAround(anchors[k], anchors[k].force_radius)

\* C32: after one tick of force_load_chunks (commands applied), for every
\* anchor with force_radius >= 0 and an existing world, every chunk
\* coordinate in the cube [center - force_radius, center + force_radius] is
\* Loaded (has VoxelStorage) before the next frame, including coordinates
\* whose chunk was already Pending or Generating when the tick started; an
\* anchor with a negative force_radius forces no chunk.
C32_ForceRadiusLoaded == []C32_ForcedLoaded /\ [][C32_OnlyForced]_vars

\* The pointer table of world w resolves c to a chunk entity.
ForceChunkAt(w, c) ==
    /\ c \in DOMAIN pointers[w]
    /\ pointers[w][c] \in DOMAIN ents
    /\ ents[pointers[w][c]].alive
    /\ ents[pointers[w][c]].world_id = w
    /\ ents[pointers[w][c]].chunk_coords = c

\* The anchors of the query whose world exists, in iteration order.
ForceWorldAnchors ==
    SelectSeq(anchors, LAMBDA a : has_world(pointers, a.world))

\* After the tick the cube of the k-th anchor with a world is covered.
ForceCovered(k) ==
    \A c \in CubeAround(ForceWorldAnchors[k], ForceWorldAnchors[k].radius) :
        ForceChunkAt(ForceWorldAnchors[k].world, c)

\* The entities the frame created at coordinate c of world w.
ForceCreatedAt(w, c) ==
    {i \in (Len(picked.ents) + 1)..Len(ents) :
        ents[i].world_id = w /\ ents[i].chunk_coords = c}

\* After a tick of load_chunks_async the cube of the first anchor whose
\* world exists is covered, and the tick created one PendingLoadChunkTask
\* chunk for every coordinate of it that had none, and no other chunk.
C33_FirstAnchorCovered ==
    (ForceFlushed("load_chunks_async") /\ picked.ran = {"load_chunks_async"}) =>
        /\ Len(ForceWorldAnchors) > 0 => ForceCovered(1)
        /\ \A w \in DOMAIN pointers : \A c \in DOMAIN pointers[w] :
              IF /\ c \notin DOMAIN picked.pointers[w]
                 /\ Len(ForceWorldAnchors) > 0
                 /\ w = ForceWorldAnchors[1].world
                 /\ c \in CubeAround(ForceWorldAnchors[1], ForceWorldAnchors[1].radius)
              THEN /\ Cardinality(ForceCreatedAt(w, c)) = 1
                   /\ \A i \in ForceCreatedAt(w, c) :
                         ents[i].pending /\ pointers[w][c] = i
              ELSE ForceCreatedAt(w, c) = {} /\ c \in DOMAIN picked.pointers[w]

\* C33: after one tick of load_chunks_async, for every chunk anchor whose
\* world exists (every such anchor, not only the first in iteration order)
\* each coordinate of the cube [center - radius, center + radius] has a
\* chunk entity (Pending, Generating or Loaded), and exactly one new
\* PendingLoadChunkTask chunk was created for each coordinate that had none,
\* even when several anchors cover the same coordinate.
C33_EveryAnchorCovered ==
    ForceFlushed("load_chunks_async") =>
        /\ \A k \in 1..Len(ForceWorldAnchors) : ForceCovered(k)
        /\ \A w \in DOMAIN pointers : \A c \in DOMAIN pointers[w] :
              c \notin DOMAIN picked.pointers[w]
                  => Cardinality(ForceCreatedAt(w, c)) = 1

(***************************************************************************)
(* SpecEvents: init_chunk, unload_chunk and unload_all_chunks of           *)
(* VoxelWorld chained with call_event, as the systems of the test          *)
(* load_unload_chunks do.  `chunk_load_ev` holds the events the last call  *)
(* sent, `lastOp` the call, the world entity it passed (data) and what     *)
(* call_event returned.                                                    *)
(***************************************************************************)
ChunkUnloadEvent(world, chunk_coords) ==
    [world |-> world, chunk_coords |-> chunk_coords, unload |-> TRUE]

\* UnloadChunkResult(Ok(chunk_coords)) and UnloadChunkResult(Err(..)) as
\* VoxelWorld::unload_chunk builds them.
UnloadChunkResult(ret, chunk_coords) ==
    IF ret.kind = "ok" THEN Ok(chunk_coords) ELSE ret

\* A call_event that sends its event whatever the result is.
InitChunkResult_call_eventAlways(res, world) ==
    [events |-> <<ChunkLoadEvent(world, res.chunk_coords)>>,
     ret    |-> IF res.result.kind = "ok" THEN Ok(0) ELSE res.result]

\* InitChunkResult::call_event: the events it sends and what it returns.
InitChunkResult_call_event(res, world) ==
    IF res.result.kind = "ok"
    THEN [events |-> <<ChunkLoadEvent(world, res.chunk_coords)>>, ret |-> Ok(0)]
    ELSE [events |-> <<>>, ret |-> res.result]

\* UnloadChunkResult::call_event
UnloadChunkResult_call_event(res, world) ==
    IF res.kind = "ok"
    THEN [events |-> <<ChunkUnloadEvent(world, res.val)>>, ret |-> Ok(0)]
    ELSE [events |-> <<>>, ret |-> res]

\* UnloadAllChunksResult::call_event: send_batch over the list.
UnloadAllChunksResult_call_event(list, world) ==
    [k \in 1..Len(list) |-> ChunkUnloadEvent(world, list[k])]

OtherThanEvents ==
    UNCHANGED <<shadow, coordVars, regionVars, iterVars, schedVars, offsets, passes>>

\* world.init_chunk(c).call_event(&mut chunk_load_ev, entity)
EvInitChunk ==
    /\ \E c \in TestChunks, world \in WorldIds :
          LET i == init_chunk(sectors, c)
              e == InitChunkResult_call_event(InitChunkResult_new(i.w, i.ret, c), world)
          IN /\ sectors' = i.w
             /\ chunk_load_ev' = e.events
             /\ lastOp' = Call("init_chunk", c, world, e.ret, NoList)
    /\ OtherThanEvents

\* world.unload_chunk(c).call_event(&mut chunk_unload_ev, entity)
EvUnloadChunk ==
    /\ \E c \in TestChunks, world \in WorldIds :
          LET u == unload_chunk(sectors, c)
              e == UnloadChunkResult_call_event(UnloadChunkResult(u.ret, c), world)
          IN /\ sectors' = u.w
             /\ chunk_load_ev' = e.events
             /\ lastOp' = Call("unload_chunk", c, world, e.ret, NoList)
    /\ OtherThanEvents

\* world.unload_all_chunks().call_event(&mut chunk_unload_ev, entity)
EvUnloadAllChunks ==
    /\ \E world \in WorldIds :
          LET u == unload_all_chunks(sectors)
          IN /\ sectors' = u.w
             /\ chunk_load_ev' = UnloadAllChunksResult_call_event(u.list, world)
             /\ lastOp' = Call("unload_all_chunks", <<0, 0, 0>>, world, Ok(0), u.list)
    /\ OtherThanEvents

\* world.prepare_chunk(c): a chunk is reserved, no event is involved.
EvPrepareChunk ==
    /\ \E c \in TestChunks : DoPrepareChunk(c)
    /\ chunk_load_ev' = <<>>
    /\ OtherThanEvents

NextEvents == EvInitChunk \/ EvUnloadChunk \/ EvUnloadAllChunks \/ EvPrepareChunk

SpecEvents == InitBlocks /\ [][NextEvents]_vars

\* The chunks of the world that are Loading or Loaded.
PresentChunks(secs) ==
    {c \in TestChunks : get_chunk_load_state(secs, c) # "Unloaded"}

\* What a call followed by call_event does: init_chunk succeeds on a chunk
\* that is not Loaded, unload_chunk on a chunk that is present.
C34_Step ==
    /\ lastOp'.op = "init_chunk" =>
          IF get_chunk_load_state(sectors, lastOp'.at) # "Loaded"
          THEN /\ get_chunk_load_state(sectors', lastOp'.at) = "Loaded"
               /\ chunk_load_ev' = <<ChunkLoadEvent(lastOp'.data, lastOp'.at)>>
               /\ lastOp'.ret.kind = "ok"
          ELSE /\ PresentChunks(sectors') = PresentChunks(sectors)
               /\ chunk_load_ev' = <<>>
               /\ lastOp'.ret.kind = "err"
    /\ lastOp'.op = "unload_chunk" =>
          IF get_chunk_load_state(sectors, lastOp'.at) # "Unloaded"
          THEN /\ get_chunk_load_state(sectors', lastOp'.at) = "Unloaded"
               /\ chunk_load_ev' = <<ChunkUnloadEvent(lastOp'.data, lastOp'.at)>>
               /\ lastOp'.ret.kind = "ok"
          ELSE /\ PresentChunks(sectors') = PresentChunks(sectors)
               /\ chunk_load_ev' = <<>>
               /\ lastOp'.ret.kind = "err"
    /\ lastOp'.op = "unload_all_chunks" =>
          /\ Len(chunk_load_ev') = Len(lastOp'.list)
          /\ \A k \in 1..Len(lastOp'.list) :
                chunk_load_ev'[k] = ChunkUnloadEvent(lastOp'.data, lastOp'.list[k])
          /\ Range(lastOp'.list) = PresentChunks(sectors)
          /\ Len(lastOp'.list) = Cardinality(PresentChunks(sectors))

\* C34: InitChunkResult::call_event and UnloadChunkResult::call_event send
\* exactly one event, carrying the world entity and the chunk coordinate of
\* the operation, if and only if the init / unload operation succeeded; when
\* the operation failed no event is sent and the operation's error is
\* returned.  UnloadAllChunksResult::call_event sends one unload event per
\* coordinate in its list.
C34_CallEvent == [][C34_Step]_vars

\* C34's case: init_chunk on a chunk that is Loaded failed, call_event
\* returned the error and sent nothing.
C34_Witness ==
    /\ lastOp.op = "init_chunk"
    /\ lastOp.ret.kind = "err"
    /\ chunk_load_ev = <<>>
    /\ get_chunk_load_state(sectors, lastOp.at) = "Loaded"

(***************************************************************************)
(* SpecStorage: the per-chunk block containers, VoxelStorage<T> of         *)
(* crates/bones3_core/src/storage/data.rs and VoxelChunk of                *)
(* src/src/storage/voxel_chunk.rs.  `ents` holds one of each, `picked` the *)
(* set calls made so far, in order, and the last call with its result.     *)
(***************************************************************************)
\* The positions the calls use: local, negative and far coordinates, three
\* of them with the same low four bits on every axis.
StoragePositions ==
    {<<-1, -1, -1>>, <<15, 15, 15>>, <<31, -17, 47>>, <<16, -16, 32>>, <<1, 2, 3>>}

\* VoxelStorage::default(): the block array is not allocated.
VoxelStorage_default == [blocks |-> None]

\* VoxelStorage::get_block
VoxelStorage_get_block(storage, local_pos) ==
    LET index == point_to_index(CHUNK, And15V(local_pos))
    IN IF index.kind # "ok" THEN Panic
       ELSE IF storage.blocks = None THEN Ok(Default)
       ELSE Ok(ReadBlock(storage.blocks[1], index.val))

\* A set_block whose first call allocates the array and drops the value.
VoxelStorage_set_blockAllocOnly(storage, local_pos, data) ==
    LET index == point_to_index(CHUNK, And15V(local_pos))
    IN IF storage.blocks = None THEN [storage |-> [blocks |-> Some(Empty)], ret |-> Ok(0)]
       ELSE [storage |-> [blocks |-> Some(WriteBlock(storage.blocks[1], index.val, data))],
             ret |-> Ok(0)]

\* VoxelStorage::set_block: the storage after the call.
VoxelStorage_set_block(storage, local_pos, data) ==
    LET index == point_to_index(CHUNK, And15V(local_pos))
    IN IF index.kind # "ok" THEN [storage |-> storage, ret |-> Panic]
       ELSE IF storage.blocks = None
       THEN [storage |-> [blocks |-> Some(WriteBlock(Empty, index.val, data))],
             ret |-> Ok(0)]
       ELSE [storage |-> [blocks |-> Some(WriteBlock(storage.blocks[1], index.val, data))],
             ret |-> Ok(0)]

\* VoxelChunk::new of src/src/storage/voxel_chunk.rs: every block is
\* BlockList::default_block_id().
BlockIdChunk_new(coords) ==
    [coords |-> ShlV(ShrV(coords, 4), 4), blocks |-> Empty]

\* `self.blocks[index as usize]` of VoxelChunk::set and index: the array has
\* 16 * 16 * 16 elements.
BlockIdChunk_slot(coords) ==
    LET c == And15V(coords)
        index == c[1] * 16 * 16 + c[2] * 16 + c[3]
    IN IF index >= 0 /\ index < 16 * 16 * 16 THEN Ok(index) ELSE Panic

\* VoxelChunk::set
BlockIdChunk_set(chunk, coords, block_id) ==
    LET index == BlockIdChunk_slot(coords)
    IN IF index.kind # "ok" THEN [chunk |-> chunk, ret |-> Panic]
       ELSE [chunk |-> [chunk EXCEPT !.blocks = WriteBlock(@, index.val, block_id)],
             ret |-> Ok(0)]

\* Index<IVec3> for VoxelChunk
BlockIdChunk_index(chunk, coords) ==
    LET index == BlockIdChunk_slot(coords)
    IN IF index.kind # "ok" THEN Panic ELSE Ok(ReadBlock(chunk.blocks, index.val))

StorageCall(writes, op, on, pos, ret) ==
    [writes |-> writes, op |-> op, on |-> on, pos |-> pos, ret |-> ret]

InitStorage ==
    /\ ents = << VoxelStorage_default, BlockIdChunk_new(<<17, -1, 0>>) >>
    /\ picked = StorageCall(<<>>, "none", 0, <<0, 0, 0>>, Ok(0))
    /\ pointers = <<>> /\ anchors = <<>> /\ cmds = <<>> /\ ran = {}
    /\ stage = "Storage"
    /\ IdleStorage /\ IdleCoords /\ IdleRegion /\ IdleIter /\ IdleLoad

UnchangedByStorage ==
    /\ UNCHANGED <<pointers, anchors, cmds, ran, stage>>
    /\ OtherThanSched

StorageSetBlock ==
    /\ stage = "Storage"
    /\ Len(picked.writes) < MaxSets
    /\ \E pos \in StoragePositions, data \in Values :
          LET r == VoxelStorage_set_block(ents[1], pos, data)
          IN /\ ents' = [ents EXCEPT ![1] = r.storage]
             /\ picked' = StorageCall(
                    Append(picked.writes, [on |-> 1, pos |-> pos, data |-> data]),
                    "set_block", 1, pos, r.ret)
    /\ UnchangedByStorage

StorageGetBlock ==
    /\ stage = "Storage"
    /\ \E pos \in StoragePositions :
          picked' = StorageCall(picked.writes, "get_block", 1, pos,
                                VoxelStorage_get_block(ents[1], pos))
    /\ UNCHANGED ents
    /\ UnchangedByStorage

ChunkSet ==
    /\ stage = "Storage"
    /\ Len(picked.writes) < MaxSets
    /\ \E pos \in StoragePositions, block_id \in Values :
          LET r == BlockIdChunk_set(ents[2], pos, block_id)
          IN /\ ents' = [ents EXCEPT ![2] = r.chunk]
             /\ picked' = StorageCall(
                    Append(picked.writes, [on |-> 2, pos |-> pos, data |-> block_id]),
                    "set", 2, pos, r.ret)
    /\ UnchangedByStorage

ChunkIndex ==
    /\ stage = "Storage"
    /\ \E pos \in StoragePositions :
          picked' = StorageCall(picked.writes, "index", 2, pos,
                                BlockIdChunk_index(ents[2], pos))
    /\ UNCHANGED ents
    /\ UnchangedByStorage

NextStorage == StorageSetBlock \/ StorageGetBlock \/ ChunkSet \/ ChunkIndex

SpecStorage == InitStorage /\ [][NextStorage]_vars

\* q & 15 == p & 15 on every axis, by the remainders of the floored division.
SameCell(p, q) == \A a \in 1..3 : (p[a] - q[a]) % 16 = 0

\* The value of the last set on container `on` at a position of the cell of
\* p, the default value when there was none.
RECURSIVE LastWritten(_, _, _, _)
LastWritten(writes, on, p, k) ==
    IF k = 0 THEN Default
    ELSE IF writes[k].on = on /\ SameCell(writes[k].pos, p) THEN writes[k].data
    ELSE LastWritten(writes, on, p, k - 1)

\* C35: for the per-chunk VoxelStorage, after any sequence of set_block
\* calls, get_block(p) returns the value of the last set_block(q, v) with
\* q & 15 == p & 15 on every axis, or the default value if there was none
\* (including when the block array was never allocated); coordinates are
\* wrapped with & 15, so get_block and set_block never fail or panic for
\* any p, negative coordinates included.  VoxelChunk::set and index behave
\* the same way.
C35_LastSetWins ==
    stage = "Storage" =>
        /\ picked.ret.kind = "ok"
        /\ \A p \in StoragePositions :
              /\ VoxelStorage_get_block(ents[1], p)
                     = Ok(LastWritten(picked.writes, 1, p, Len(picked.writes)))
              /\ BlockIdChunk_index(ents[2], p)
                     = Ok(LastWritten(picked.writes, 2, p, Len(picked.writes)))
        /\ picked.op \in {"get_block", "index"} =>
              picked.ret = Ok(LastWritten(picked.writes, picked.on, picked.pos,
                                          Len(picked.writes)))

\* C35's case: a value was set at (15,15,15), then overwritten through the
\* negative position (-1,-1,-1), and get_block(31,-17,47) read the second
\* value.
C35_Witness ==
    /\ stage = "Storage"
    /\ Len(picked.writes) = 2
    /\ picked.writes[1] = [on |-> 1, pos |-> <<15, 15, 15>>, data |-> MaxValue]
    /\ picked.writes[2].on = 1 /\ picked.writes[2].pos = <<-1, -1, -1>>
    /\ picked.writes[2].data # MaxValue
    /\ picked.op = "get_block" /\ picked.pos = <<31, -17, 47>>
    /\ picked.ret = Ok(picked.writes[2].data)

(***************************************************************************)
(* SpecIntersect: Region::intersects and Region::intersection on pairs of  *)
(* regions.  `region` is the first region, `probe` the second one and what *)
(* the two calls returned.                                                 *)
(***************************************************************************)
\* The regions from_points builds from corners of 0..IntersectSpan on the
\* x and y axes and the given corners on the z axis.
IntersectRegions(zs) ==
    {from_points(<<a[1], a[2], z[1]>>, <<b[1], b[2], z[2]>>) :
        a \in (0..IntersectSpan) \X (0..IntersectSpan),
        b \in (0..IntersectSpan) \X (0..IntersectSpan),
        z \in zs}

\* The points around the regions.
IntersectBox ==
    {<<x, y, z>> : x \in -1..(IntersectSpan + 1), y \in -1..(IntersectSpan + 1),
                   z \in -1..2}

InitIntersect ==
    /\ region \in IntersectRegions({<<0, 0>>})
    /\ probe = [called |-> FALSE, point |-> <<0, 0, 0>>, ret |-> Ok(0)]
    /\ IdleStorage /\ IdleCoords /\ IdleIter /\ IdleSched /\ IdleLoad

\* a.intersects(b) and Region::intersection(&a, &b)
Intersect ==
    /\ \E b \in IntersectRegions({<<0, 0>>, <<0, 1>>, <<1, 1>>}) :
          probe' = [called     |-> TRUE,
                    other      |-> b,
                    intersects |-> intersects(region, b),
                    ret        |-> intersection(region, b)]
    /\ UNCHANGED <<region, storageVars, coordVars, iterVars, schedVars, loadVars>>

NextIntersect == Intersect

SpecIntersect == InitIntersect /\ [][NextIntersect]_vars

\* C36: for all regions a and b, Region::intersection(a, b) returns Ok if
\* and only if a.intersects(b), which holds if and only if some point is
\* contained in both; when Ok, the returned region contains exactly the
\* points contained in both a and b, and when the regions are disjoint an
\* error is returned.
C36_IntersectionIsCommonPoints ==
    probe.called =>
        LET common == {q \in IntersectBox :
                          contains(region, q) /\ contains(probe.other, q)}
        IN /\ (probe.ret.kind = "ok") = probe.intersects
           /\ probe.intersects = (common # {})
           /\ probe.ret.kind = "ok" =>
                 {q \in IntersectBox : contains(probe.ret.val, q)} = common
           /\ common = {} => probe.ret = Err

\* C36's case: two different regions that share exactly one corner point,
\* and the intersection is that point.
C36_Witness ==
    /\ probe.called
    /\ probe.other # region
    /\ probe.ret = Ok(Region(<<1, 1, 0>>, <<1, 1, 1>>))
    /\ region.size[1] > 1 /\ probe.other.size[1] > 1

\* What a call does to the load state of the chunks (SpecChunks): the
\* transitions of prepare_chunk, init_chunk, unload_chunk and
\* unload_all_chunks, and that no other chunk and no other call changes a
\* state.
C37_Step ==
    LET c == lastOp'.at
        before == get_chunk_load_state(sectors, c)
        after  == get_chunk_load_state(sectors', c)
        others == \A d \in TestChunks \ {c} :
                     get_chunk_load_state(sectors', d) = get_chunk_load_state(sectors, d)
    IN /\ lastOp'.op = "prepare_chunk" =>
             /\ others
             /\ IF before = "Unloaded"
                THEN lastOp'.ret.kind = "ok" /\ after = "Loading"
                ELSE lastOp'.ret.kind = "err" /\ sectors' = sectors
       /\ lastOp'.op = "init_chunk" =>
             /\ others
             /\ IF before = "Loaded"
                THEN lastOp'.ret.kind = "err" /\ sectors' = sectors
                ELSE /\ lastOp'.ret.kind = "ok" /\ after = "Loaded"
                     /\ init_chunk(sectors', c).ret.kind = "err"
                     /\ before = "Loading" =>
                           /\ BlocksOf(sectors', c) = BlocksOf(sectors, c)
                           /\ \A q \in TestPoints :
                                 get_block(sectors', q) = get_block(sectors, q)
       /\ lastOp'.op = "unload_chunk" =>
             /\ others
             /\ after = "Unloaded"
             /\ lastOp'.ret.kind = (IF before = "Unloaded" THEN "err" ELSE "ok")
       /\ lastOp'.op = "unload_all_chunks" =>
             \A d \in TestChunks : get_chunk_load_state(sectors', d) = "Unloaded"
       /\ lastOp'.op \in {"get_block", "set_block"} =>
             \A d \in TestChunks :
                 get_chunk_load_state(sectors', d) = get_chunk_load_state(sectors, d)

\* C37: in VoxelWorld each chunk coordinate follows the state machine
\* Unloaded -> Loading (prepare_chunk) -> Loaded (init_chunk), Unloaded ->
\* Loaded (init_chunk), and any state -> Unloaded (unload_chunk /
\* unload_all_chunks): prepare_chunk succeeds only from Unloaded and fails
\* without changing anything when the chunk is Loading or Loaded,
\* init_chunk on a Loading chunk succeeds exactly once and keeps the blocks
\* written while Loading, and a second init_chunk then fails.
C37_LoadStateMachine ==
    /\ [](\A d \in TestChunks :
             get_chunk_load_state(sectors, d) \in {"Unloaded", "Loading", "Loaded"})
    /\ [][C37_Step]_vars

\* C37's case: init_chunk succeeded on a chunk that was Loading and holds a
\* block written while it was Loading.
C37_Witness ==
    /\ lastOp.op = "init_chunk"
    /\ lastOp.ret.kind = "ok"
    /\ get_chunk_load_state(sectors, lastOp.at) = "Loaded"
    /\ BlocksOf(sectors, lastOp.at) # Empty

(***************************************************************************)
(* SpecPointers: ChunkEntityPointers of src/src/query/sector.rs, the       *)
(* table from chunk coordinates to chunk entities.  `pointers` holds the   *)
(* one table, `picked` the last entity set at each coordinate and the last *)
(* call with its result.                                                   *)
(***************************************************************************)
\* The depth value of the cache (sector.rs).
CACHE_DEPTH == 5

\* The chunk coordinates the calls use: two in the sector (0,0,0), one in a
\* negative sector, the others in further sectors.
AllPointerCoords ==
    << <<0, 0, 0>>, <<-1, -1, -1>>, <<31, 31, 31>>, <<32, 0, 0>>, <<-33, 0, 31>> >>
PointerCoords == {AllPointerCoords[i] : i \in 1..NumPointerCoords}
PointerEntities == {None, Some(1), Some(2)}

\* Sector::new
Sector_new(sector_coords) ==
    [sector_coords |-> sector_coords, chunks |-> Empty, active_chunks |-> 0]

\* Sector::region
Sector_region(sector) ==
    from_size(ShlV(sector.sector_coords, CACHE_DEPTH),
              <<Shl(1, CACHE_DEPTH), Shl(1, CACHE_DEPTH), Shl(1, CACHE_DEPTH)>>)

\* The index of a chunk in the array of its sector: region() and
\* point_to_index, each unwrapped.
Sector_index(sector, chunk_coords) ==
    IF Sector_region(sector).kind # "ok" THEN Panic
    ELSE IF point_to_index(Sector_region(sector).val, chunk_coords).kind # "ok" THEN Panic
    ELSE point_to_index(Sector_region(sector).val, chunk_coords)

\* Sector::get_chunk_entity
Sector_get_chunk_entity(sector, chunk_coords) ==
    LET index == Sector_index(sector, chunk_coords)
    IN IF index.kind # "ok" THEN Panic
       ELSE IF index.val \in DOMAIN sector.chunks
       THEN Ok(Some(sector.chunks[index.val]))
       ELSE Ok(None)

\* A set_chunk_entity that counts every Some(..) it stores.
Sector_set_chunk_entityCounting(sector, chunk_coords, entity) ==
    LET index == Sector_index(sector, chunk_coords)
    IN Ok([sector EXCEPT
              !.active_chunks = IF entity # None THEN @ + 1
                                ELSE IF index.val \in DOMAIN sector.chunks THEN @ - 1
                                ELSE @,
              !.chunks = IF entity = None THEN Del(@, index.val)
                         ELSE Put(@, index.val, entity[1])])

\* Sector::set_chunk_entity: active_chunks is a usize, taking one from zero
\* overflows.
Sector_set_chunk_entity(sector, chunk_coords, entity) ==
    LET index == Sector_index(sector, chunk_coords)
    IN IF index.kind # "ok" THEN Panic
       ELSE LET old == index.val \in DOMAIN sector.chunks
                active == IF old /\ entity = None THEN sector.active_chunks - 1
                          ELSE IF ~old /\ entity # None THEN sector.active_chunks + 1
                          ELSE sector.active_chunks
            IN IF active < 0 THEN Panic
               ELSE Ok([sector EXCEPT
                           !.active_chunks = active,
                           !.chunks = IF entity = None THEN Del(@, index.val)
                                      ELSE Put(@, index.val, entity[1])])

\* Sector::is_empty
Sector_is_empty(sector) == sector.active_chunks = 0

\* ChunkEntityPointers::get_chunk_entity
ChunkEntityPointers_get_chunk_entity(ptrs, chunk_coords) ==
    LET si == FindSector(ptrs.sectors, ShrV(chunk_coords, CACHE_DEPTH))
    IN IF si = 0 THEN Ok(None)
       ELSE Sector_get_chunk_entity(ptrs.sectors[si], chunk_coords)

\* sectors.remove(index)
RemoveAt(s, index) == SubSeq(s, 1, index - 1) \o SubSeq(s, index + 1, Len(s))

\* ChunkEntityPointers::set_chunk_entity: the table after the call.
ChunkEntityPointers_set_chunk_entity(ptrs, chunk_coords, entity) ==
    LET sector_coords == ShrV(chunk_coords, CACHE_DEPTH)
        secs1 == IF FindSector(ptrs.sectors, sector_coords) = 0
                 THEN Append(ptrs.sectors, Sector_new(sector_coords))
                 ELSE ptrs.sectors
        si == FindSector(secs1, sector_coords)
        s  == Sector_set_chunk_entity(secs1[si], chunk_coords, entity)
    IN IF s.kind # "ok" THEN [pointers |-> [sectors |-> secs1], ret |-> Panic]
       ELSE IF Sector_is_empty(s.val)
       THEN [pointers |-> [sectors |-> RemoveAt([secs1 EXCEPT ![si] = s.val],
                                                FindSector(secs1, sector_coords))],
             ret |-> Ok(0)]
       ELSE [pointers |-> [sectors |-> [secs1 EXCEPT ![si] = s.val]], ret |-> Ok(0)]

PointerCall(last, op, at, prev, ret) ==
    [last |-> last, op |-> op, at |-> at, prev |-> prev, ret |-> ret]

\* ChunkEntityPointers::default()
InitPointers ==
    /\ pointers = [sectors |-> <<>>]
    /\ picked = PointerCall([c \in PointerCoords |-> None], "none", <<0, 0, 0>>, None, Ok(0))
    /\ ents = <<>> /\ anchors = <<>> /\ cmds = <<>> /\ ran = {}
    /\ stage = "Pointers"
    /\ IdleStorage /\ IdleCoords /\ IdleRegion /\ IdleIter /\ IdleLoad

PtrSetChunkEntity ==
    /\ stage = "Pointers"
    /\ \E c \in PointerCoords, entity \in PointerEntities :
          LET r == ChunkEntityPointers_set_chunk_entity(pointers, c, entity)
          IN /\ pointers' = r.pointers
             /\ picked' = PointerCall(
                    IF r.ret.kind = "ok" THEN [picked.last EXCEPT ![c] = entity]
                    ELSE picked.last,
                    "set_chunk_entity", c, picked.last[c], r.ret)
             /\ stage' = IF r.ret.kind = "ok" THEN stage ELSE "panicked"
    /\ UNCHANGED <<ents, anchors, cmds, ran>>
    /\ OtherThanSched

PtrGetChunkEntity ==
    /\ stage = "Pointers"
    /\ \E c \in PointerCoords :
          picked' = PointerCall(picked.last, "get_chunk_entity", c, picked.last[c],
                                ChunkEntityPointers_get_chunk_entity(pointers, c))
    /\ UNCHANGED <<ents, pointers, anchors, cmds, ran, stage>>
    /\ OtherThanSched

NextPointers == PtrSetChunkEntity \/ PtrGetChunkEntity

SpecPointers == InitPointers /\ [][NextPointers]_vars

\* C38: after any sequence of set_chunk_entity(c, Some(e)) and
\* set_chunk_entity(c, None) calls (including clearing a coordinate that was
\* never set and overwriting an occupied coordinate), the sector list has at
\* most one sector per sector coordinate, each sector's active_chunks equals
\* the number of its occupied slots and is greater than zero (empty sectors
\* are removed), and get_chunk_entity(c) returns the entity of the last set
\* at c, or None if the last set was None or there was none.
C38_PointerTable ==
    /\ stage = "Pointers"
    /\ picked.ret.kind = "ok"
    /\ \A i, j \in 1..Len(pointers.sectors) :
          pointers.sectors[i].sector_coords = pointers.sectors[j].sector_coords => i = j
    /\ \A i \in 1..Len(pointers.sectors) :
          /\ pointers.sectors[i].active_chunks
                 = Cardinality(DOMAIN pointers.sectors[i].chunks)
          /\ pointers.sectors[i].active_chunks > 0
    /\ \A c \in PointerCoords :
          ChunkEntityPointers_get_chunk_entity(pointers, c) = Ok(picked.last[c])
    /\ picked.op = "get_chunk_entity" => picked.ret = Ok(picked.last[picked.at])

\* C38's case: the occupied coordinate (0,0,0) was overwritten while its
\* sector holds a second chunk and no other sector is left.
C38_Witness ==
    /\ picked.op = "set_chunk_entity"
    /\ picked.at = <<0, 0, 0>> /\ picked.prev = Some(1)
    /\ picked.last[<<0, 0, 0>>] = Some(2)
    /\ picked.last[<<31, 31, 31>>] = Some(1)
    /\ picked.last[<<-1, -1, -1>>] = None
    /\ Len(pointers.sectors) = 1
    /\ pointers.sectors[1].active_chunks = 2

(***************************************************************************)
(* SpecSetBlock: the set_block system of src/src/storage/systems.rs.       *)
(* `ents` holds the entities (a VoxelWorld or a VoxelChunk component       *)
(* each), `cmds` the chunks whose spawn is queued, `picked` the batch of   *)
(* the last run.  An entity id is the index into `ents`; the id of a       *)
(* queued spawn is reserved at once, its components exist after the flush. *)
(***************************************************************************)
\* VoxelWorld::new
BlockWorld_new == [kind |-> "world", chunks |-> Empty]

\* An entity with a VoxelChunk component.
BlockChunkEntity(storage) == [kind |-> "chunk", chunk |-> storage]

\* VoxelWorld::get_chunk_id
VoxelWorld_get_chunk_id(world, coords) ==
    IF ShrV(coords, 4) \in DOMAIN world.chunks
    THEN Some(world.chunks[ShrV(coords, 4)])
    ELSE None

\* VoxelWorld::update_chunk_id
VoxelWorld_update_chunk_id(world, coords, chunk_id) ==
    [world EXCEPT !.chunks = Put(@, ShrV(coords, 4), chunk_id)]

\* worlds.get_mut(id) / chunks.get_mut(id): the entity is alive and has the
\* component.
HasComponent(es, id, kind) == id \in 1..Len(es) /\ es[id].kind = kind

SetBlockEvent(world, coords, block_id) ==
    [world |-> world, coords |-> coords, block_id |-> block_id]

\* The block positions of the events: two in the chunk (0,0,0) and two in
\* the chunk (-1,-1,-1).
SetBlockPositions ==
    { <<0, 0, 0>>, <<1, 2, 3>>, <<-1, -1, -1>>, <<-16, -16, -16>> }
\* Entity 1 is the world; entity 2 never has a VoxelWorld component.
SetBlockWorlds == {1, 2}
SetBlockIds == {1, 2}
SetBlockEvents ==
    { SetBlockEvent(w, pos, b) : w \in SetBlockWorlds, pos \in SetBlockPositions,
                                 b \in SetBlockIds }
RECURSIVE SetBlockBatches(_)
SetBlockBatches(n) ==
    IF n = 0 THEN {<<>>}
    ELSE SetBlockBatches(n - 1)
         \cup {Append(s, ev) : s \in {t \in SetBlockBatches(n - 1) : Len(t) = n - 1},
                               ev \in SetBlockEvents}

\* One pass of the loop body of set_block, for the event ev.  st.ents are
\* the entities, st.cmds the queued spawns.
set_block_event(st, ev) ==
    IF ~HasComponent(st.ents, ev.world, "world") THEN st
    ELSE LET world == st.ents[ev.world]
             chunk_id == VoxelWorld_get_chunk_id(world, ev.coords)
         IN IF chunk_id # None /\ HasComponent(st.ents, chunk_id[1], "chunk")
            THEN [st EXCEPT !.ents[chunk_id[1]].chunk =
                     BlockIdChunk_set(@, ev.coords, ev.block_id).chunk]
            ELSE LET storage == BlockIdChunk_set(BlockIdChunk_new(ev.coords),
                                                 ev.coords, ev.block_id).chunk
                     new_id == Len(st.ents) + Len(st.cmds) + 1
                 IN [ents |-> [st.ents EXCEPT
                                  ![ev.world] = VoxelWorld_update_chunk_id(world, ev.coords, new_id)],
                     cmds |-> Append(st.cmds, BlockChunkEntity(storage))]

\* set_block: the loop over events.iter(), events k.. of the batch.
RECURSIVE systems_set_block(_, _, _)
systems_set_block(st, events, k) ==
    IF k > Len(events) THEN st
    ELSE systems_set_block(set_block_event(st, events[k]), events, k + 1)

SetBlockRun(batch, frame, before) ==
    [batch |-> batch, frame |-> frame, before |-> before]

\* A world without chunks, or a world whose chunk (0,0,0) exists as
\* entity 2 with a block written at (1,2,3).
InitSetBlock ==
    /\ ents \in { <<BlockWorld_new>>,
                  << VoxelWorld_update_chunk_id(BlockWorld_new, <<0, 0, 0>>, 2),
                     BlockChunkEntity(BlockIdChunk_set(BlockIdChunk_new(<<0, 0, 0>>),
                                                       <<1, 2, 3>>, 2).chunk) >> }
    /\ cmds = <<>>
    /\ picked = SetBlockRun(<<>>, 0, ents)
    /\ pointers = <<>> /\ anchors = <<>> /\ ran = {}
    /\ stage = "SetBlock"
    /\ IdleStorage /\ IdleCoords /\ IdleRegion /\ IdleIter /\ IdleLoad

\* The system runs on the events of this frame.
SetBlockSystem ==
    /\ stage = "SetBlock"
    /\ picked.frame < MaxSetBlockFrames
    /\ \E batch \in SetBlockBatches(MaxBatch) :
          LET st == systems_set_block([ents |-> ents, cmds |-> cmds], batch, 1)
          IN /\ ents' = st.ents
             /\ cmds' = st.cmds
             /\ picked' = SetBlockRun(batch, picked.frame + 1, ents)
    /\ stage' = "SetBlockQueued"
    /\ UNCHANGED <<pointers, anchors, ran>>
    /\ OtherThanSched

\* The queued commands are applied: every spawned chunk gets the id that
\* was reserved for it.
SetBlockFlush ==
    /\ stage = "SetBlockQueued"
    /\ ents' = ents \o cmds
    /\ cmds' = <<>>
    /\ stage' = "SetBlock"
    /\ UNCHANGED <<pointers, anchors, ran, picked>>
    /\ OtherThanSched

NextSetBlock == SetBlockSystem \/ SetBlockFlush

SpecSetBlock == InitSetBlock /\ [][NextSetBlock]_vars

\* The batch was processed and its commands are applied.
SetBlockApplied == stage = "SetBlock" /\ picked.frame > 0

\* The events of the batch that target the block at `coords` of world w.
TargetingEvents(w, coords) ==
    {i \in 1..Len(picked.batch) :
        picked.batch[i].world = w /\ picked.batch[i].coords = coords}

\* The block read at `coords` through the pointer table of world w.
ResolvedBlock(w, coords) ==
    LET chunk_id == VoxelWorld_get_chunk_id(ents[w], coords)
    IN IF chunk_id # None /\ HasComponent(ents, chunk_id[1], "chunk")
       THEN BlockIdChunk_index(ents[chunk_id[1]].chunk, coords)
       ELSE Err

LastTargeting(w, coords) ==
    CHOOSE i \in TargetingEvents(w, coords) :
        \A j \in TargetingEvents(w, coords) : j <= i

\* The chunk of `coords` existed in world w before the batch.
ExistedBefore(w, coords) ==
    LET chunk_id == VoxelWorld_get_chunk_id(picked.before[w], coords)
    IN chunk_id # None /\ HasComponent(picked.before, chunk_id[1], "chunk")

\* The events of the batch in the chunk of `coords` of world w.
EventsInChunk(w, coords) ==
    {i \in 1..Len(picked.batch) :
        /\ picked.batch[i].world = w
        /\ ShrV(picked.batch[i].coords, 4) = ShrV(coords, 4)}

\* C39 (as stated): after the batch is processed and the commands are
\* applied, every block coordinate targeted in the batch reads, through the
\* pointer table of its world, the block id of the last event targeting it.
C39_BatchApplied ==
    SetBlockApplied =>
        \A w \in {1}, coords \in SetBlockPositions :
            TargetingEvents(w, coords) # {} =>
                ResolvedBlock(w, coords)
                    = Ok(picked.batch[LastTargeting(w, coords)].block_id)

\* C39 (part that holds): the same for the coordinates whose chunk existed
\* before the batch, and for those whose chunk is targeted at one block
\* coordinate only.
C39_ExistingOrSingle ==
    SetBlockApplied =>
        \A w \in {1}, coords \in SetBlockPositions :
            /\ TargetingEvents(w, coords) # {}
            /\ \/ ExistedBefore(w, coords)
               \/ \A i \in EventsInChunk(w, coords) : picked.batch[i].coords = coords
            => ResolvedBlock(w, coords)
                   = Ok(picked.batch[LastTargeting(w, coords)].block_id)

\* C39 (one chunk is created): after the flush no two chunk entities have
\* the same chunk coordinates.
C39_OneChunkCreated ==
    SetBlockApplied =>
        \A i, j \in 1..Len(ents) :
            /\ ents[i].kind = "chunk" /\ ents[j].kind = "chunk"
            /\ ents[i].chunk.coords = ents[j].chunk.coords
            => i = j

\* C39's failing case: two events of one batch wrote different blocks of a
\* chunk that did not exist, and the commands are applied.
C39_TwoEventsNewChunk ==
    /\ SetBlockApplied
    /\ Len(picked.batch) = 2
    /\ picked.batch[1] = SetBlockEvent(1, <<-1, -1, -1>>, 1)
    /\ picked.batch[2] = SetBlockEvent(1, <<-16, -16, -16>>, 2)
    /\ ~ExistedBefore(1, <<-1, -1, -1>>)

=============================================================================
